---- MODULE Spec2Model ----
(***************************************************************************)
(* The @mention notification backend of focalboard                         *)
(* (server/services/notify/notifymentions/mentions_backend.go), the plugin  *)
(* delivery it calls (plugindelivery/mention_deliver.go) and the part of   *)
(* the SQL store it reads and writes (sqlstore board members).             *)
(*                                                                         *)
(* One BlockChanged call is a little process: every collaborator call it   *)
(* makes (delivery, permissions, store, websocket adapter, listeners) is   *)
(* one step, so that concurrent calls interleave where goroutines can.     *)
(* Every collaborator call is appended to the call's log with its answer;  *)
(* the properties are stated over the logs, the returned multi-error and   *)
(* the store.                                                              *)
(***************************************************************************)
EXTENDS Integers, Sequences, FiniteSets, TLC

VARIABLES
    board_members,          \* the board_members table: a set of rows
    board_members_history,  \* board_members_history: per (board, user), the actions in insertion order
    listeners,              \* Backend.listeners
    mux,                    \* Backend.mux: who holds the RWMutex
    reg,                    \* per thread: the AddListener or RemoveListener call it is in
    pc,                     \* per call: where the call stands
    evt,                    \* per call: the BlockChangeEvent it was given
    todo,                   \* per call: the usernames `range mentions` has not visited yet
    username,               \* per call: the loop variable
    mentionedUser,          \* per call: mentionedUser.Id in deliverMentionNotification
    member,                 \* per call: the member variable of deliverMentionNotification (no row = nil)
    snapshot,               \* per call: the local copy of b.listeners
    idx,                    \* per call: position in the fan-out over the copy
    merr,                   \* per call: the merror being collected
    log,                    \* per call: the collaborator calls made so far, with their answers
    boards,                 \* table boards: a set of rows
    boards_history,         \* table boards_history: rows in the order of insert_at
    now,                    \* utils.GetMillis() as last read
    ret,                    \* what the last call on the board tables was and returned
    selectedCards,          \* BoardComponent: state.selectedCards
    shownCard,              \* BoardComponent: state.shownCard
    domEvent                \* BoardComponent: the event handled last

storeVars == <<board_members, board_members_history>>
regVars == <<listeners, mux, reg>>
callVars == <<pc, evt, todo, username, mentionedUser, member, snapshot, idx, merr, log>>
boardVars == <<boards, boards_history, now, ret>>
viewVars == <<selectedCards, shownCard, domEvent>>
vars == <<board_members, board_members_history, listeners, mux, reg,
          pc, evt, todo, username, mentionedUser, member, snapshot, idx, merr, log,
          boards, boards_history, now, ret, selectedCards, shownCard, domEvent>>

-----------------------------------------------------------------------------
(* The bounded world. *)

\* Goroutines that may run BlockChanged.
NumCalls == 2
Calls == 1 .. NumCalls

\* Goroutines that register and unregister listeners.
NumRegistrars == 1
Registrars == (NumCalls + 1) .. (NumCalls + NumRegistrars)

\* Every goroutine may be in AddListener or RemoveListener: a call of
\* BlockChanged is when a listener it notifies calls one of them.
Threads == Calls \cup Registrars

\* Tokens that follow an @ in a block.
Usernames == {"alice", "bob"}

\* mm_model.User.Id of the user a username resolves to (when it resolves).
UserIdOf(name) == IF name = "alice" THEN "u_alice" ELSE "u_bob"
UserIds == {UserIdOf(n) : n \in Usernames}

\* Boards: b1 is an open board, b2 a private one.
BoardIds == {"b1", "b2"}
BoardTypeOf(b) == IF b = "b1" THEN "O" ELSE "P"
BoardTypeOpen == "O"

ActorId == "u_carol"

ListenerIds == {"l1", "l2", "l3"}
\* What a listener's OnMention does: l1 returns, l2 panics, l3 unregisters
\* itself (it calls b.RemoveListener on itself) and returns.
Panics(l) == l = "l2"
Unregisters(l) == l = "l3"

BoardMember(b, u, a, e, c, v) ==
    [BoardID |-> b, UserID |-> u, SchemeAdmin |-> a, SchemeEditor |-> e,
     SchemeCommenter |-> c, SchemeViewer |-> v]

\* The capability flags of a BoardMember.
Flags == {"admin", "editor", "commenter", "viewer"}

\* What evt.ModifiedBy may be: nil, or a member with any set of flags.
ActorChoices == {<<FALSE, {}>>} \cup {<<TRUE, s>> : s \in SUBSET Flags}

\* evt.ModifiedBy: no element when nil, else the BoardMember of the acting user.
ActorOn(b, ch) ==
    IF ch[1]
    THEN {BoardMember(b, ActorId, "admin" \in ch[2], "editor" \in ch[2],
                      "commenter" \in ch[2], "viewer" \in ch[2])}
    ELSE {}

Event(hb, b, hc, act, ty, new, old, by) ==
    [hasBoard |-> hb, board |-> b, hasCard |-> hc, action |-> act, blockType |-> ty,
     mentions |-> new, oldMentions |-> old, modifiedBy |-> by]

NoEvent == Event(FALSE, "b1", FALSE, "delete", "text", {}, {}, {})

EditorOf(b) == ActorOn(b, <<TRUE, {"editor"}>>)

\* Events that exercise the mention rules: an update of a text block of a card.
MentionEvents ==
    {Event(TRUE, b, TRUE, "update", "text", new, old, ActorOn(b, ch)) :
        b \in BoardIds, new \in SUBSET Usernames, old \in SUBSET Usernames,
        ch \in ActorChoices}

\* Events that exercise the guards at the head of BlockChanged.
GateEvents ==
    {Event(hb, "b1", hc, act, ty, {"alice"}, {}, EditorOf("b1")) :
        hb \in BOOLEAN, hc \in BOOLEAN, act \in {"add", "update", "delete"},
        ty \in {"text", "comment", "image", "view"}}

Events == MentionEvents \cup GateEvents

\* Events for the runs with several calls: an editor, a commenter or a guest
\* newly mentions one user on the open board.
EnrollEvents ==
    {Event(TRUE, "b1", TRUE, "update", "text", {name}, {}, ActorOn("b1", <<TRUE, flags>>)) :
        name \in Usernames, flags \in {{"editor"}, {"commenter"}, {}}}

-----------------------------------------------------------------------------
(* Log and error entries. *)

Entry(op, name, id, lsn, res, rows) ==
    [op |-> op, name |-> name, id |-> id, lsn |-> lsn, res |-> res, rows |-> rows]

\* listener.OnMention(userID, evt) was called on listener l for the mention of
\* name; it returned ("ok") or panicked ("panic").
Notification(name, userID, l, e) ==
    [op |-> "OnMention", name |-> name, id |-> userID, lsn |-> l,
     res |-> IF Panics(l) THEN "panic" ELSE "ok", rows |-> {}, evt |-> e]

\* One error appended to merr: the username it is tagged with (line 133), what
\* failed, and the ids its message names.
Failure(name, kind, ids) == [name |-> name, kind |-> kind, ids |-> ids]

Logged(p, op, name) == \E i \in 1 .. Len(log[p]) : log[p][i].op = op /\ log[p][i].name = name

LoggedRes(p, op, name, res) ==
    \E i \in 1 .. Len(log[p]) :
        log[p][i].op = op /\ log[p][i].name = name /\ log[p][i].res = res

Failed(p, name, kind) ==
    \E i \in 1 .. Len(merr[p]) : merr[p][i].name = name /\ merr[p][i].kind = kind

-----------------------------------------------------------------------------
(* The SQL store: board members. *)

Pair(b, u) == <<b, u>>
Pairs == {Pair(b, u) : b \in BoardIds, u \in UserIds \cup {ActorId}}

\* SELECT ... FROM board_members WHERE board_id = ? AND user_id = ?
getMemberForBoard(tbl, b, u) == {r \in tbl : r.BoardID = b /\ r.UserID = u}

\* INSERT ... ON CONFLICT (board_id, user_id) DO UPDATE SET scheme_* = EXCLUDED.scheme_*
upsertMember(tbl, bm) == (tbl \ getMemberForBoard(tbl, bm.BoardID, bm.UserID)) \cup {bm}

\* saveMember: fault names the statement that fails ("none": no statement fails).
\*   "query"   the lookup of the old member fails (not with ErrNoRows)
\*   "exec"    the insert fails
\*   "history" the insert into board_members_history fails (reached only when
\*             there was no old member)
saveMember(tbl, hist, bm, fault) ==
    LET oldMember == getMemberForBoard(tbl, bm.BoardID, bm.UserID)
        k == Pair(bm.BoardID, bm.UserID)
    IN  IF fault \in {"query", "exec"}
        THEN [tbl |-> tbl, hist |-> hist, ok |-> FALSE]
        ELSE IF oldMember = {}
        THEN IF fault = "history"
             THEN [tbl |-> upsertMember(tbl, bm), hist |-> hist, ok |-> FALSE]
             ELSE [tbl |-> upsertMember(tbl, bm),
                   hist |-> [hist EXCEPT ![k] = Append(@, "created")], ok |-> TRUE]
        ELSE [tbl |-> upsertMember(tbl, bm), hist |-> hist, ok |-> TRUE]

SaveFaults == {"none", "query", "exec", "history"}

\* deleteMember: fault names the statement that fails ("none": no statement fails).
\*   "exec"    the DELETE fails
\*   "rows"    result.RowsAffected() fails, after the DELETE was done
\*   "history" the insert into board_members_history fails (reached only when
\*             a row was deleted)
deleteMember(tbl, hist, b, u, fault) ==
    LET deleted == getMemberForBoard(tbl, b, u)
        rowsAffected == Cardinality(deleted)
        k == Pair(b, u)
    IN  IF fault = "exec"
        THEN [tbl |-> tbl, hist |-> hist, ok |-> FALSE]
        ELSE IF fault = "rows"
        THEN [tbl |-> tbl \ deleted, hist |-> hist, ok |-> FALSE]
        ELSE IF rowsAffected > 0
        THEN IF fault = "history"
             THEN [tbl |-> tbl \ deleted, hist |-> hist, ok |-> FALSE]
             ELSE [tbl |-> tbl \ deleted,
                   hist |-> [hist EXCEPT ![k] = Append(@, "deleted")], ok |-> TRUE]
        ELSE [tbl |-> tbl, hist |-> hist, ok |-> TRUE]

DeleteFaults == {"none", "exec", "rows", "history"}

\* insertBoardWithAdmin: the creator of a board is saved as admin and editor.
CreatorOf(b) == IF b = "b1" THEN "u_alice" ELSE "u_bob"
CreatorMember(b) == BoardMember(b, CreatorOf(b), TRUE, TRUE, FALSE, FALSE)

\* The store the backend is constructed on: every board with its creator as
\* member, so that on each board one user is a member and the other is not.
InitStore ==
    [tbl |-> {CreatorMember(b) : b \in BoardIds},
     hist |-> [k \in Pairs |-> IF k[2] = CreatorOf(k[1]) THEN <<"created">> ELSE <<>>]]

-----------------------------------------------------------------------------
(* The SQL store: boards. *)

\* json.Marshal of board.Properties or board.CardProperties: a nil map or
\* slice is written as null.
Marshal(v) ==
    CASE v = "nil" -> "null"
      [] v = "map[]" -> "{}"
      [] v = "map[a:1]" -> "{\"a\":1}"
      [] v = "[]" -> "[]"

\* json.Unmarshal of the stored text into the zero value of the field.
Unmarshal(bytes) ==
    CASE bytes = "null" -> "nil"
      [] bytes = "{}" -> "map[]"
      [] bytes = "{\"a\":1}" -> "map[a:1]"
      [] bytes = "[]" -> "[]"

\* boardsFromRows, for one row: the columns scanned into a model.Board.
boardsFromRows(r) ==
    [ID |-> r.id, TeamID |-> r.team_id, ChannelID |-> r.channel_id,
     CreatedBy |-> r.created_by, ModifiedBy |-> r.modified_by, Type |-> r.type,
     Title |-> r.title, Description |-> r.description, Icon |-> r.icon,
     ShowDescription |-> r.show_description, IsTemplate |-> r.is_template,
     TemplateVersion |-> r.template_version,
     Properties |-> Unmarshal(r.properties),
     CardProperties |-> Unmarshal(r.card_properties),
     CreateAt |-> r.create_at, UpdateAt |-> r.update_at, DeleteAt |-> r.delete_at]

\* The column values deleteBoard and insertBoard build from a model.Board
\* (lines 1001-1019, 1091-1109).
QueryValues(board, userID, update_at, delete_at) ==
    [id |-> board.ID, team_id |-> board.TeamID, channel_id |-> board.ChannelID,
     created_by |-> board.CreatedBy, modified_by |-> userID, type |-> board.Type,
     title |-> board.Title, description |-> board.Description, icon |-> board.Icon,
     show_description |-> board.ShowDescription, is_template |-> board.IsTemplate,
     template_version |-> board.TemplateVersion,
     properties |-> Marshal(board.Properties),
     card_properties |-> Marshal(board.CardProperties),
     create_at |-> board.CreateAt, update_at |-> update_at, delete_at |-> delete_at]

\* SELECT ... FROM boards WHERE id = ?
getBoard(tbl, boardID) == {r \in tbl : r.id = boardID}

Reverse(s) == [i \in 1 .. Len(s) |-> s[Len(s) + 1 - i]]

\* getBoardHistory: the history rows of the board, ordered by insert_at, at
\* most opts.Limit of them when a limit is given.
getBoardHistory(hist, boardID, opts) ==
    LET rows == SelectSeq(hist, LAMBDA r : r.id = boardID)
        ordered == IF opts.Descending THEN Reverse(rows) ELSE rows
        limited == IF opts.Limit # 0 /\ opts.Limit < Len(ordered)
                   THEN SubSeq(ordered, 1, opts.Limit)
                   ELSE ordered
    IN  [i \in 1 .. Len(limited) |-> boardsFromRows(limited[i])]

\* insertBoard at time t: fault names the statement that fails ("none": no
\* statement fails).
\*   "query"   the lookup of the existing board fails (not with not-found)
\*   "exec"    the UPDATE or INSERT on boards fails
\*   "history" the INSERT into boards_history fails
\*   "reread"  the final getBoard fails
insertBoard(tbl, hist, board, userID, t, fault) ==
    LET existingBoard == getBoard(tbl, board.ID)
        insertQueryValues == QueryValues(board, userID, t, board.DeleteAt)
        updated == {IF r.id # board.ID THEN r
                    ELSE [r EXCEPT !.modified_by = userID,
                                   !.type = board.Type,
                                   !.title = board.Title,
                                   !.description = board.Description,
                                   !.icon = board.Icon,
                                   !.show_description = board.ShowDescription,
                                   !.is_template = board.IsTemplate,
                                   !.template_version = board.TemplateVersion,
                                   !.properties = Marshal(board.Properties),
                                   !.card_properties = Marshal(board.CardProperties),
                                   !.update_at = t,
                                   !.delete_at = board.DeleteAt] : r \in tbl}
        inserted == [insertQueryValues EXCEPT !.created_by = userID,
                                              !.create_at = t,
                                              !.update_at = t]
        written == IF existingBoard # {} THEN updated ELSE tbl \cup {inserted}
        entry == IF existingBoard # {} THEN insertQueryValues ELSE inserted
    IN  IF fault \in {"query", "exec"}
        THEN [boards |-> tbl, hist |-> hist, err |-> TRUE]
        ELSE IF fault = "history"
        THEN [boards |-> written, hist |-> hist, err |-> TRUE]
        ELSE [boards |-> written, hist |-> Append(hist, entry), err |-> fault = "reread"]

InsertFaults == {"none", "query", "exec", "history", "reread"}

\* deleteBoard with the row deleted and no history row written.
deleteBoard_NoHistory(tbl, hist, boardID, userID, t, fault) ==
    LET found == getBoard(tbl, boardID)
    IN  IF fault = "query" \/ found = {}
        THEN [boards |-> tbl, hist |-> hist, err |-> TRUE]
        ELSE [boards |-> tbl \ found, hist |-> hist, err |-> fault # "none"]

\* deleteBoard at time t: fault names the statement that fails.
\*   "query"   getBoard fails; it also fails, with ErrNoRows, when the board
\*             has no row
\*   "history" the INSERT into boards_history fails
\*   "exec"    the DELETE fails
deleteBoard(tbl, hist, boardID, userID, t, fault) ==
    LET found == getBoard(tbl, boardID)
    IN  IF fault = "query" \/ found = {}
        THEN [boards |-> tbl, hist |-> hist, err |-> TRUE]
        ELSE LET board == boardsFromRows(CHOOSE r \in found : TRUE)
                 insertQueryValues == QueryValues(board, userID, t, t)
                 kept == {r \in tbl : ~(r.id = boardID /\ r.team_id = board.TeamID)}
             IN  IF fault = "history"
                 THEN [boards |-> tbl, hist |-> hist, err |-> TRUE]
                 ELSE [boards |-> IF fault = "exec" THEN tbl ELSE kept,
                       hist |-> Append(hist, insertQueryValues),
                       err |-> fault = "exec"]

\* undeleteBoard with the restored board stamped as created at the time of
\* the call.
undeleteBoard_NewCreateAt(tbl, hist, boardID, modifiedBy, t, fault) ==
    LET found == getBoardHistory(hist, boardID, [Limit |-> 1, Descending |-> TRUE])
    IN  IF fault = "query"
        THEN [boards |-> tbl, hist |-> hist, err |-> TRUE]
        ELSE IF Len(found) = 0 \/ found[1].DeleteAt = 0
        THEN [boards |-> tbl, hist |-> hist, err |-> FALSE]
        ELSE LET values == [QueryValues(found[1], modifiedBy, t, 0)
                               EXCEPT !.channel_id = "", !.create_at = t]
                 conflict == getBoard(tbl, boardID) # {}
             IN  IF fault = "history"
                 THEN [boards |-> tbl, hist |-> hist, err |-> TRUE]
                 ELSE IF fault = "exec" \/ conflict
                 THEN [boards |-> tbl, hist |-> Append(hist, values), err |-> TRUE]
                 ELSE [boards |-> tbl \cup {values}, hist |-> Append(hist, values),
                       err |-> FALSE]

\* undeleteBoard without the test of the latest history row's delete_at: the
\* board is restored from that row whatever it says.
undeleteBoard_IgnoresLatest(tbl, hist, boardID, modifiedBy, t, fault) ==
    LET found == getBoardHistory(hist, boardID, [Limit |-> 1, Descending |-> TRUE])
    IN  IF fault = "query"
        THEN [boards |-> tbl, hist |-> hist, err |-> TRUE]
        ELSE IF Len(found) = 0
        THEN [boards |-> tbl, hist |-> hist, err |-> FALSE]
        ELSE LET values == [QueryValues(found[1], modifiedBy, t, 0) EXCEPT !.channel_id = ""]
                 conflict == getBoard(tbl, boardID) # {}
             IN  IF fault = "history"
                 THEN [boards |-> tbl, hist |-> hist, err |-> TRUE]
                 ELSE IF fault = "exec" \/ conflict
                 THEN [boards |-> tbl, hist |-> Append(hist, values), err |-> TRUE]
                 ELSE [boards |-> tbl \cup {values}, hist |-> Append(hist, values),
                       err |-> FALSE]

\* undeleteBoard, with t the time read at line 1404: fault names the
\* statement that fails.
\*   "query"   getBoardHistory fails
\*   "history" the INSERT into boards_history fails
\*   "exec"    the INSERT into boards fails; it also fails when boards holds
\*             a row of that id (id is the key of the table)
undeleteBoard(tbl, hist, boardID, modifiedBy, t, fault) ==
    LET found == getBoardHistory(hist, boardID, [Limit |-> 1, Descending |-> TRUE])
    IN  IF fault = "query"
        THEN [boards |-> tbl, hist |-> hist, err |-> TRUE]
        ELSE IF Len(found) = 0
        THEN [boards |-> tbl, hist |-> hist, err |-> FALSE]
        ELSE IF found[1].DeleteAt = 0
        THEN [boards |-> tbl, hist |-> hist, err |-> FALSE]
        ELSE LET board == found[1]
                 values == [QueryValues(board, modifiedBy, t, 0) EXCEPT !.channel_id = ""]
                 conflict == getBoard(tbl, boardID) # {}
             IN  IF fault = "history"
                 THEN [boards |-> tbl, hist |-> hist, err |-> TRUE]
                 ELSE IF fault = "exec" \/ conflict
                 THEN [boards |-> tbl, hist |-> Append(hist, values), err |-> TRUE]
                 ELSE [boards |-> tbl \cup {values}, hist |-> Append(hist, values),
                       err |-> FALSE]

BoardFaults == {"none", "query", "history", "exec"}

\* The board ids of the tables: the two boards of the backend's world, and one
\* that was never inserted.
StoredBoardIds == BoardIds \cup {"b3"}

\* The model.Board values given to insertBoard: for each id two contents, and
\* with DeleteAt zero or set.
NewBoard(id, title, deleteAt) ==
    [ID |-> id, TeamID |-> "team", ChannelID |-> "ch", CreatedBy |-> "",
     ModifiedBy |-> "", Type |-> BoardTypeOf(id),
     Title |-> title, Description |-> "about " \o title, Icon |-> "i",
     ShowDescription |-> title = "t1", IsTemplate |-> FALSE, TemplateVersion |-> 0,
     Properties |-> IF title = "t1" THEN "nil" ELSE "map[a:1]",
     CardProperties |-> IF title = "t1" THEN "nil" ELSE "[]",
     CreateAt |-> 0, UpdateAt |-> 0, DeleteAt |-> deleteAt]

Titles == {"t1", "t2"}

\* The board tables the backend's world begins with: b1 and b2 were inserted
\* by their creators.
InitBoards ==
    LET first == insertBoard({}, <<>>, NewBoard("b1", "t1", 0), CreatorOf("b1"), 1, "none")
    IN  insertBoard(first.boards, first.hist, NewBoard("b2", "t1", 0), CreatorOf("b2"), 1,
                    "none")

\* No call on the board tables was made yet.
NoBoardCall == [op |-> "", id |-> "", fault |-> "", err |-> FALSE, before |-> {}]

-----------------------------------------------------------------------------
(* BoardComponent: the selection of cards. *)

\* The Card objects of props.boardTree.
Cards == {"c1", "c2", "c3"}

\* state.shownCard when no card is shown.
Undefined == "undefined"

\* The events the component handles: a click on a card, with or without the
\* shift key; a click on the background; a key pressed while some element has
\* the focus; the shown card being closed.
DomEvent(type, card, shiftKey, target, keyCode) ==
    [type |-> type, card |-> card, shiftKey |-> shiftKey, target |-> target,
     keyCode |-> keyCode]

NoDomEvent == DomEvent("", Undefined, FALSE, "", 0)

\* e.keyCode of the Escape key (line 54), and the key codes pressed: Escape and
\* Enter.
KeyEscape == 27
KeyCodes == {KeyEscape, 13}

\* cardClicked with the card pushed whether or not the selection includes it.
Toggled_PushAlways(list, card) == Append(list, card)

\* What shift+click makes of the selection (lines 624-629).
Toggled(list, card) ==
    IF \E i \in 1 .. Len(list) : list[i] = card
    THEN SelectSeq(list, LAMBDA o : o # card)
    ELSE Append(list, card)

-----------------------------------------------------------------------------
(* Backend: the listener registry. *)

\* The most registrations the runs make.
MaxListeners == 2

\* The RWMutex: the goroutine holding it for writing (at most one) and the
\* goroutines holding it for reading.
NoLock == [writer |-> {}, readers |-> {}]

\* The thread is in no AddListener or RemoveListener call.
NoRegistryCall == [pc |-> "idle", op |-> "", l |-> ""]

RECURSIVE without_FirstOnly(_, _)
\* without with a break after the first listener found equal to l.
without_FirstOnly(list, l) ==
    IF list = <<>> THEN <<>>
    ELSE IF Head(list) = l THEN Tail(list)
         ELSE <<Head(list)>> \o without_FirstOnly(Tail(list), l)

RECURSIVE without(_, _)
\* RemoveListener's loop: the listeners other than l, in order.
without(list, l) ==
    IF list = <<>> THEN <<>>
    ELSE IF Head(list) = l THEN without(Tail(list), l)
         ELSE <<Head(list)>> \o without(Tail(list), l)

\* The AddListener calls that have not appended yet.
PendingAdds == {t \in Threads : reg[t].op = "add"}

\* Thread r calls b.AddListener(l): it is at b.mux.Lock().
AddListener(r, l) ==
    /\ reg[r].pc = "idle"
    /\ Len(listeners) + Cardinality(PendingAdds) < MaxListeners
    /\ reg' = [reg EXCEPT ![r] = [pc |-> "lock", op |-> "add", l |-> l]]
    /\ UNCHANGED <<listeners, mux, storeVars, boardVars, viewVars, callVars>>

\* Thread r calls b.RemoveListener(l): it is at b.mux.Lock().
RemoveListener(r, l) ==
    /\ reg[r].pc = "idle"
    /\ reg' = [reg EXCEPT ![r] = [pc |-> "lock", op |-> "remove", l |-> l]]
    /\ UNCHANGED <<listeners, mux, storeVars, boardVars, viewVars, callVars>>

\* Lock taking the lock like a reader does (b.mux.RLock() in the place of
\* b.mux.Lock()): it waits for no other goroutine that changes the registry.
Lock_Shared(t) ==
    /\ reg[t].pc = "lock"
    /\ mux' = [mux EXCEPT !.writer = @ \cup {t}]
    /\ reg' = [reg EXCEPT ![t].pc = "locked"]
    /\ UNCHANGED <<listeners, storeVars, boardVars, viewVars, callVars>>

\* b.mux.Lock() returns: nobody holds the lock, for writing or for reading.
Lock(t) ==
    /\ reg[t].pc = "lock"
    /\ mux = NoLock
    /\ mux' = [mux EXCEPT !.writer = {t}]
    /\ reg' = [reg EXCEPT ![t].pc = "locked"]
    /\ UNCHANGED <<listeners, storeVars, boardVars, viewVars, callVars>>

\* Updated with the registry kept free of duplicates: adding a listener that
\* is registered already changes nothing.
Updated_Set(op, l, list) ==
    IF op = "add"
    THEN IF \E i \in 1 .. Len(list) : list[i] = l THEN list ELSE Append(list, l)
    ELSE without(list, l)

\* What AddListener (line 78) or RemoveListener (lines 85-90) makes of the
\* registry it reads.
Updated(op, l, list) == IF op = "add" THEN Append(list, l) ELSE without(list, l)

\* The body under the lock, first half: b.listeners is read and the new slice
\* built from it (append at line 78, the loop at lines 85-90).
LoadListeners(t) ==
    /\ reg[t].pc = "locked"
    /\ reg' = [reg EXCEPT ![t] = [pc |-> "loaded", op |-> reg[t].op, l |-> reg[t].l,
                                  list |-> Updated(reg[t].op, reg[t].l, listeners)]]
    /\ UNCHANGED <<listeners, mux, storeVars, boardVars, viewVars, callVars>>

\* The body under the lock, second half: the new slice is assigned to
\* b.listeners (lines 78, 91), and the deferred b.mux.Unlock().
StoreListeners(t) ==
    /\ reg[t].pc = "loaded"
    /\ listeners' = reg[t].list
    /\ mux' = [mux EXCEPT !.writer = @ \ {t}]
    /\ reg' = [reg EXCEPT ![t] = NoRegistryCall]
    /\ UNCHANGED <<storeVars, boardVars, viewVars, callVars>>

\* The body of AddListener or RemoveListener under the lock, and the deferred
\* b.mux.Unlock().
UpdateListeners(t) ==
    /\ reg[t].pc = "locked"
    /\ listeners' = Updated(reg[t].op, reg[t].l, listeners)
    /\ mux' = [mux EXCEPT !.writer = @ \ {t}]
    /\ reg' = [reg EXCEPT ![t] = NoRegistryCall]
    /\ UNCHANGED <<storeVars, boardVars, viewVars, callVars>>

-----------------------------------------------------------------------------
(* Backend.BlockChanged *)

\* Ignored with the test of the delete action left out.
Ignored_DeleteProcessed(e) ==
    \/ ~e.hasBoard \/ ~e.hasCard
    \/ e.blockType \notin {"text", "comment", "image"}

\* The guards at the head of BlockChanged (lines 96-108): TRUE when the call
\* returns nil at once.
Ignored(e) ==
    \/ ~e.hasBoard \/ ~e.hasCard
    \/ e.action = "delete"
    \/ e.blockType \notin {"text", "comment", "image"}

\* AlreadyMentioned with the test of oldMentions left out.
AlreadyMentioned_Never(e, name) == FALSE

\* AlreadyMentioned with the test inverted.
AlreadyMentioned_Inverted(e, name) == name \notin e.oldMentions

\* `if _, exists := oldMentions[username]; exists`
AlreadyMentioned(e, name) == name \in e.oldMentions

\* ActorRule with the viewer case of the private board left out.
ActorRule_PrivateViewerPasses(e) ==
    IF e.modifiedBy = {} THEN "noactor"
    ELSE LET by == CHOOSE m \in e.modifiedBy : TRUE
         IN  IF BoardTypeOf(e.board) = BoardTypeOpen
             THEN IF by.SchemeAdmin \/ by.SchemeEditor \/ by.SchemeCommenter THEN "team"
                  ELSE IF by.SchemeViewer THEN "viewer"
                  ELSE "board"
             ELSE "board"

\* ActorRule with the nil check of evt.ModifiedBy left out: no actor counts as a guest.
ActorRule_NoActorIsGuest(e) ==
    IF BoardTypeOf(e.board) = BoardTypeOpen
    THEN IF \E m \in e.modifiedBy : m.SchemeAdmin \/ m.SchemeEditor \/ m.SchemeCommenter
         THEN "team"
         ELSE IF \E m \in e.modifiedBy : m.SchemeViewer THEN "viewer"
         ELSE "board"
    ELSE IF \E m \in e.modifiedBy : m.SchemeViewer THEN "viewer"
         ELSE "board"

\* ActorRule with the guest of an open board handled like an editor.
ActorRule_GuestEnrolls(e) ==
    IF e.modifiedBy = {} THEN "noactor"
    ELSE LET by == CHOOSE m \in e.modifiedBy : TRUE
         IN  IF BoardTypeOf(e.board) = BoardTypeOpen
             THEN IF by.SchemeAdmin \/ by.SchemeEditor \/ by.SchemeCommenter THEN "team"
                  ELSE IF by.SchemeViewer THEN "viewer"
                  ELSE "team"
             ELSE IF by.SchemeViewer THEN "viewer"
                  ELSE "board"

\* ActorRule with the viewer case tested first on the open board too.
ActorRule_ViewerFirst(e) ==
    IF e.modifiedBy = {} THEN "noactor"
    ELSE LET by == CHOOSE m \in e.modifiedBy : TRUE
         IN  IF by.SchemeViewer THEN "viewer"
             ELSE IF BoardTypeOf(e.board) = BoardTypeOpen
                     /\ (by.SchemeAdmin \/ by.SchemeEditor \/ by.SchemeCommenter)
             THEN "team"
             ELSE "board"

\* The rule deliverMentionNotification applies to a resolved mention, first
\* match wins (lines 174-234):
\*   "noactor"  evt.ModifiedBy is nil: permission error
\*   "team"     open board, admin/editor/commenter: team check, auto-enroll
\*   "viewer"   viewer: permission error
\*   "board"    guest on an open board, anyone else on a private one: board check
ActorRule(e) ==
    IF e.modifiedBy = {} THEN "noactor"
    ELSE LET by == CHOOSE m \in e.modifiedBy : TRUE
         IN  IF BoardTypeOf(e.board) = BoardTypeOpen
             THEN IF by.SchemeAdmin \/ by.SchemeEditor \/ by.SchemeCommenter THEN "team"
                  ELSE IF by.SchemeViewer THEN "viewer"
                  ELSE "board"
             ELSE IF by.SchemeViewer THEN "viewer"
                  ELSE "board"

\* OnTeamPermission with the return after the error left out.
OnTeamPermission_FallsThrough(ok) == [to |-> "getmember", denied |-> ~ok]

\* OnTeamPermission with the answer ignored.
OnTeamPermission_Ignored(ok) == [to |-> "getmember", denied |-> FALSE]

\* What follows HasPermissionToTeam's answer (lines 184-188).
OnTeamPermission(ok) ==
    IF ok THEN [to |-> "getmember", denied |-> FALSE] ELSE [to |-> "range", denied |-> TRUE]

\* OnBoardPermission with the test negated.
OnBoardPermission_Negated(ok) ==
    IF ~ok THEN [to |-> "deliver", denied |-> FALSE] ELSE [to |-> "range", denied |-> TRUE]

\* What follows HasPermissionToBoard's answer (lines 217-219, 230-232).
OnBoardPermission(ok) ==
    IF ok THEN [to |-> "deliver", denied |-> FALSE] ELSE [to |-> "range", denied |-> TRUE]

\* `if member == nil || b.store.IsErrNotFound(err)` (line 189): rows is the
\* member returned, res the lookup's result ("ok", "notfound", "error").
NeedsEnroll(rows, res) == rows = {} \/ res = "notfound"

\* newBoardMember with the capabilities of the acting user copied.
newBoardMember_ActorRole(e, userID) ==
    LET by == CHOOSE m \in e.modifiedBy : TRUE
    IN  BoardMember(e.board, userID, by.SchemeAdmin, by.SchemeEditor,
                    by.SchemeCommenter, by.SchemeViewer)

\* The member auto-enroll saves (lines 191-195).
newBoardMember(e, userID) == BoardMember(e.board, userID, FALSE, TRUE, FALSE, FALSE)

\* The ids the permission errors name (lines 185, 214, 218, 227, 231).
ActorAndMentioned(e, userID) == {m.UserID : m \in e.modifiedBy} \cup {userID}

\* LookupFailures with the test of IsErrNotFound left out.
LookupFailures_NotFoundIsError(name, res) == <<Failure(name, "lookup", {})>>

\* What deliverMentionNotification returns as error when UserByUsername found
\* no user (lines 165-171): nothing for not-found, the lookup error otherwise.
LookupFailures(name, res) ==
    IF res = "notfound" THEN <<>> ELSE <<Failure(name, "lookup", {})>>

\* The call's other locals stay as they are.
Keep(p) == UNCHANGED <<evt, todo, snapshot, idx>>

\* One step of call p: to a new place, with calls logged and errors collected.
Step(p, to, entries, failures) ==
    /\ pc' = [pc EXCEPT ![p] = to]
    /\ log' = [log EXCEPT ![p] = @ \o entries]
    /\ merr' = [merr EXCEPT ![p] = @ \o failures]

\* Continue with `return merr.ErrorOrNil()` in the place of going on with the
\* loop once an error was appended.
Continue_ReturnsOnError(p, entries, failures) ==
    /\ Step(p, IF failures = <<>> THEN "range" ELSE "done", entries, failures)
    /\ username' = [username EXCEPT ![p] = ""]
    /\ mentionedUser' = [mentionedUser EXCEPT ![p] = ""]
    /\ member' = [member EXCEPT ![p] = {}]

\* deliverMentionNotification returned ("", err) or ("", nil): back to the loop.
Continue(p, entries, failures) ==
    /\ Step(p, "range", entries, failures)
    /\ username' = [username EXCEPT ![p] = ""]
    /\ mentionedUser' = [mentionedUser EXCEPT ![p] = ""]
    /\ member' = [member EXCEPT ![p] = {}]

BlockChanged(p, e) ==
    /\ pc[p] = "idle"
    /\ evt' = [evt EXCEPT ![p] = e]
    /\ IF Ignored(e) \/ e.mentions = {}
       THEN /\ Step(p, "done", <<>>, <<>>)
            /\ UNCHANGED todo
       ELSE /\ Step(p, "rlock", <<>>, <<>>)
            /\ todo' = [todo EXCEPT ![p] = e.mentions]
    /\ UNCHANGED <<username, mentionedUser, member, snapshot, idx, storeVars, boardVars, viewVars, regVars>>

\* b.mux.RLock()
RLock(p) ==
    /\ pc[p] = "rlock"
    /\ mux.writer = {}
    /\ mux' = [mux EXCEPT !.readers = @ \cup {p}]
    /\ Step(p, "copy", <<>>, <<>>)
    /\ UNCHANGED <<evt, todo, username, mentionedUser, member, snapshot, idx, storeVars, boardVars, viewVars, listeners, reg>>

\* CopyListeners with the copy made into a slice of length zero
\* (make([]MentionListener, 0, len(b.listeners))): copy() copies nothing.
CopyListeners_ZeroLength(p) ==
    /\ pc[p] = "copy"
    /\ snapshot' = [snapshot EXCEPT ![p] = <<>>]
    /\ mux' = [mux EXCEPT !.readers = @ \ {p}]
    /\ Step(p, "range", <<>>, <<>>)
    /\ UNCHANGED <<evt, todo, username, mentionedUser, member, idx, storeVars, boardVars, viewVars, listeners, reg>>

\* CopyListeners with the unlock deferred (defer b.mux.RUnlock()): the read
\* lock is still held when the loop over the mentions begins.
CopyListeners_DeferredUnlock(p) ==
    /\ pc[p] = "copy"
    /\ snapshot' = [snapshot EXCEPT ![p] = listeners]
    /\ Step(p, "range", <<>>, <<>>)
    /\ UNCHANGED <<evt, todo, username, mentionedUser, member, idx, storeVars, boardVars, viewVars, regVars>>

\* copy(listeners, b.listeners); b.mux.RUnlock()
CopyListeners(p) ==
    /\ pc[p] = "copy"
    /\ snapshot' = [snapshot EXCEPT ![p] = listeners]
    /\ mux' = [mux EXCEPT !.readers = @ \ {p}]
    /\ Step(p, "range", <<>>, <<>>)
    /\ UNCHANGED <<evt, todo, username, mentionedUser, member, idx, storeVars, boardVars, viewVars, listeners, reg>>

\* `for username := range mentions`: a Go map is ranged over in no fixed order.
RangeMentions(p) ==
    /\ pc[p] = "range"
    /\ IF todo[p] = {}
       THEN /\ Step(p, "done", <<>>, <<>>)
            /\ UNCHANGED <<todo, username>>
       ELSE \E name \in todo[p] :
            /\ todo' = [todo EXCEPT ![p] = @ \ {name}]
            /\ IF AlreadyMentioned(evt[p], name)
               THEN /\ Step(p, "range", <<>>, <<>>)
                    /\ UNCHANGED username
               ELSE /\ Step(p, "lookup", <<>>, <<>>)
                    /\ username' = [username EXCEPT ![p] = name]
    /\ UNCHANGED <<evt, mentionedUser, member, snapshot, idx, storeVars, boardVars, viewVars, regVars>>

\* UserByUsername with the check of the acting user (lines 174-176) made
\* before the lookup: an event without one is refused for every mention, with
\* no lookup made.
UserByUsername_ActorFirst(p) ==
    /\ pc[p] = "lookup"
    /\ \E res \in {"found", "notfound", "error"} :
         LET name == username[p]
             userID == IF res = "found" THEN UserIdOf(name) ELSE ""
             call == <<Entry("UserByUsername", name, userID, "", res, {})>>
             rule == ActorRule(evt[p])
             denied == <<Failure(name, "permission",
                                 IF rule = "noactor" THEN {}
                                 ELSE ActorAndMentioned(evt[p], userID))>>
         IN  CASE rule = "noactor" -> Continue(p, <<>>, denied)
               [] rule # "noactor" /\ res \in {"notfound", "error"} ->
                    Continue(p, call, LookupFailures(name, res))
               [] res = "found" /\ rule = "viewer" -> Continue(p, call, denied)
               [] res = "found" /\ rule \in {"team", "board"} ->
                    /\ Step(p, IF rule = "team" THEN "teamperm" ELSE "boardperm", call, <<>>)
                    /\ mentionedUser' = [mentionedUser EXCEPT ![p] = userID]
                    /\ UNCHANGED <<username, member>>
    /\ Keep(p)
    /\ UNCHANGED <<storeVars, boardVars, viewVars, regVars>>

\* b.delivery.UserByUsername(username), and the checks on the event that
\* follow it up to the first permission call.
UserByUsername(p) ==
    /\ pc[p] = "lookup"
    /\ \E res \in {"found", "notfound", "error"} :
         LET name == username[p]
             userID == IF res = "found" THEN UserIdOf(name) ELSE ""
             call == <<Entry("UserByUsername", name, userID, "", res, {})>>
             rule == ActorRule(evt[p])
             denied == <<Failure(name, "permission",
                                 IF rule = "noactor" THEN {}
                                 ELSE ActorAndMentioned(evt[p], userID))>>
         IN  CASE res \in {"notfound", "error"} -> Continue(p, call, LookupFailures(name, res))
               [] res = "found" /\ rule \in {"noactor", "viewer"} -> Continue(p, call, denied)
               [] res = "found" /\ rule \in {"team", "board"} ->
                    /\ Step(p, IF rule = "team" THEN "teamperm" ELSE "boardperm", call, <<>>)
                    /\ mentionedUser' = [mentionedUser EXCEPT ![p] = userID]
                    /\ UNCHANGED <<username, member>>
    /\ Keep(p)
    /\ UNCHANGED <<storeVars, boardVars, viewVars, regVars>>

\* b.permissions.HasPermissionToTeam(mentionedUser.Id, evt.TeamID, PermissionViewTeam)
HasPermissionToTeam(p) ==
    /\ pc[p] = "teamperm"
    /\ \E ok \in BOOLEAN :
         LET name == username[p]
             call == <<Entry("HasPermissionToTeam", name, mentionedUser[p], "",
                             IF ok THEN "true" ELSE "false", {})>>
             next == OnTeamPermission(ok)
             errs == IF next.denied
                     THEN <<Failure(name, "permission",
                                    ActorAndMentioned(evt[p], mentionedUser[p]))>>
                     ELSE <<>>
         IN  IF next.to = "range"
             THEN Continue(p, call, errs)
             ELSE /\ Step(p, next.to, call, errs)
                  /\ UNCHANGED <<username, mentionedUser, member>>
    /\ Keep(p)
    /\ UNCHANGED <<storeVars, boardVars, viewVars, regVars>>

\* b.permissions.HasPermissionToBoard(mentionedUser.Id, evt.Board.ID, PermissionViewBoard)
HasPermissionToBoard(p) ==
    /\ pc[p] = "boardperm"
    /\ \E ok \in BOOLEAN :
         LET name == username[p]
             call == <<Entry("HasPermissionToBoard", name, mentionedUser[p], "",
                             IF ok THEN "true" ELSE "false", {})>>
             next == OnBoardPermission(ok)
             errs == IF next.denied
                     THEN <<Failure(name, "permission",
                                    ActorAndMentioned(evt[p], mentionedUser[p]))>>
                     ELSE <<>>
         IN  IF next.to = "range"
             THEN Continue(p, call, errs)
             ELSE /\ Step(p, next.to, call, errs)
                  /\ UNCHANGED <<username, mentionedUser, member>>
    /\ Keep(p)
    /\ UNCHANGED <<storeVars, boardVars, viewVars, regVars>>

\* b.store.GetMemberForBoard(evt.Board.ID, mentionedUser.Id): the row, ErrNoRows
\* when there is none, or (nil, err) when the query fails.
GetMemberForBoard(p) ==
    /\ pc[p] = "getmember"
    /\ \E queryFails \in BOOLEAN :
         LET rows == IF queryFails THEN {}
                     ELSE getMemberForBoard(board_members, evt[p].board, mentionedUser[p])
             res == IF queryFails THEN "error" ELSE IF rows = {} THEN "notfound" ELSE "ok"
             call == <<Entry("GetMemberForBoard", username[p], mentionedUser[p], "", res, rows)>>
         IN  /\ Step(p, IF NeedsEnroll(rows, res) THEN "save" ELSE "deliver", call, <<>>)
             /\ member' = [member EXCEPT ![p] = rows]
    /\ Keep(p)
    /\ UNCHANGED <<username, mentionedUser, storeVars, boardVars, viewVars, regVars>>

\* SaveMember with its error left unexamined: the broadcast follows whatever
\* the save returned.
SaveMember_IgnoresError(p) ==
    /\ pc[p] = "save"
    /\ \E fault \in SaveFaults :
         LET bm == newBoardMember(evt[p], mentionedUser[p])
             got == saveMember(board_members, board_members_history, bm, fault)
             call == <<Entry("SaveMember", username[p], mentionedUser[p], "",
                             IF got.ok THEN "ok" ELSE "error", {bm})>>
         IN  /\ board_members' = got.tbl
             /\ board_members_history' = got.hist
             /\ Step(p, "broadcast", call, <<>>)
             /\ member' = [member EXCEPT ![p] = IF got.ok THEN {bm} ELSE {}]
             /\ UNCHANGED <<username, mentionedUser>>
    /\ Keep(p)
    /\ UNCHANGED <<regVars, boardVars, viewVars>>

\* b.store.SaveMember(newBoardMember)
SaveMember(p) ==
    /\ pc[p] = "save"
    /\ \E fault \in SaveFaults :
         LET bm == newBoardMember(evt[p], mentionedUser[p])
             got == saveMember(board_members, board_members_history, bm, fault)
             call == <<Entry("SaveMember", username[p], mentionedUser[p], "",
                             IF got.ok THEN "ok" ELSE "error", {bm})>>
         IN  /\ board_members' = got.tbl
             /\ board_members_history' = got.hist
             /\ IF got.ok
                THEN /\ Step(p, "broadcast", call, <<>>)
                     /\ member' = [member EXCEPT ![p] = {bm}]
                     /\ UNCHANGED <<username, mentionedUser>>
                ELSE Continue(p, call,
                              <<Failure(username[p], "save", {mentionedUser[p], evt[p].board})>>)
    /\ Keep(p)
    /\ UNCHANGED <<regVars, boardVars, viewVars>>

\* b.wsAdapter.BroadcastMemberChange(evt.TeamID, evt.Board.ID, member)
BroadcastMemberChange(p) ==
    /\ pc[p] = "broadcast"
    /\ Step(p, "deliver",
            <<Entry("BroadcastMemberChange", username[p], mentionedUser[p], "", "ok", member[p])>>,
            <<>>)
    /\ Keep(p)
    /\ UNCHANGED <<username, mentionedUser, member, storeVars, boardVars, viewVars, regVars>>

\* pd.botID, and the id of the direct channel between two users.
BotId == "bot"
DirectChannel(u, v) == <<"direct", u, v>>

\* One call of the plugin API.
ApiCall(call, args) == [call |-> call, args |-> args]

\* pluginMentionDeliver that goes on to the post when the direct channel
\* could not be had.
pluginMentionDeliver_PostsAnyway(e, userID, outcome) ==
    LET author == ApiCall("GetUserByID", <<(CHOOSE m \in e.modifiedBy : TRUE).UserID>>)
        channel == ApiCall("GetDirectChannel", <<userID, BotId>>)
        post == ApiCall("CreatePost", <<BotId, DirectChannel(userID, BotId)>>)
    IN  CASE outcome = "author" -> [userID |-> "", err |-> TRUE, api |-> <<author>>]
          [] outcome = "channel" -> [userID |-> "", err |-> TRUE, api |-> <<author, channel, post>>]
          [] outcome = "post" -> [userID |-> userID, err |-> TRUE, api |-> <<author, channel, post>>]
          [] outcome = "ok" -> [userID |-> userID, err |-> FALSE, api |-> <<author, channel, post>>]

\* PluginDelivery.MentionDeliver: what it returns, and the calls of the plugin
\* API it makes, when the step named by outcome fails ("ok": none does).
\*   "author"   pd.api.GetUserByID(evt.ModifiedBy.UserID) fails: ("", err)
\*   "channel"  pd.api.GetDirectChannel(mentionedUser.Id, pd.botID) fails: ("", err)
\*   "post"     pd.api.CreatePost fails: (mentionedUser.Id, err)
\* The post is authored by the bot (UserId) in the direct channel (ChannelId).
pluginMentionDeliver(e, userID, outcome) ==
    LET author == ApiCall("GetUserByID", <<(CHOOSE m \in e.modifiedBy : TRUE).UserID>>)
        channel == ApiCall("GetDirectChannel", <<userID, BotId>>)
        post == ApiCall("CreatePost", <<BotId, DirectChannel(userID, BotId)>>)
    IN  CASE outcome = "author" -> [userID |-> "", err |-> TRUE, api |-> <<author>>]
          [] outcome = "channel" -> [userID |-> "", err |-> TRUE, api |-> <<author, channel>>]
          [] outcome = "post" -> [userID |-> userID, err |-> TRUE, api |-> <<author, channel, post>>]
          [] outcome = "ok" -> [userID |-> userID, err |-> FALSE, api |-> <<author, channel, post>>]

\* b.delivery.MentionDeliver was called for the mention of name: the step that
\* failed (res), the user id returned and the plugin API calls made.
Delivery(name, got, outcome) ==
    [op |-> "MentionDeliver", name |-> name, id |-> got.userID, lsn |-> "",
     res |-> outcome, rows |-> {}, api |-> got.api]

DeliverOutcomes == {"author", "channel", "post", "ok"}

\* MentionDeliver with one more attempt made when the first fails, the error
\* of the first attempt dropped.
MentionDeliver_RetriesOnce(p) ==
    /\ pc[p] = "deliver"
    /\ \E outcome \in DeliverOutcomes :
         LET got == pluginMentionDeliver(evt[p], mentionedUser[p], outcome)
             call == <<Delivery(username[p], got, outcome)>>
             errs == IF got.err THEN <<Failure(username[p], "deliver", {})>> ELSE <<>>
         IN  IF got.err /\ ~Logged(p, "MentionDeliver", username[p])
             THEN /\ Step(p, "deliver", call, <<>>)
                  /\ UNCHANGED <<username, mentionedUser, member, idx>>
             ELSE IF got.userID = "" \/ snapshot[p] = <<>>
             THEN /\ Continue(p, call, errs)
                  /\ UNCHANGED idx
             ELSE /\ Step(p, "notify", call, errs)
                  /\ idx' = [idx EXCEPT ![p] = 1]
                  /\ UNCHANGED <<username, mentionedUser, member>>
    /\ UNCHANGED <<evt, todo, snapshot, storeVars, boardVars, viewVars, regVars>>

\* b.delivery.MentionDeliver(mentionedUser, extract, evt) and, back in
\* BlockChanged, lines 132-139.
MentionDeliver(p) ==
    /\ pc[p] = "deliver"
    /\ \E outcome \in DeliverOutcomes :
         LET got == pluginMentionDeliver(evt[p], mentionedUser[p], outcome)
             call == <<Delivery(username[p], got, outcome)>>
             errs == IF got.err THEN <<Failure(username[p], "deliver", {})>> ELSE <<>>
         IN  IF got.userID = "" \/ snapshot[p] = <<>>
             THEN /\ Continue(p, call, errs)
                  /\ UNCHANGED idx
             ELSE /\ Step(p, "notify", call, errs)
                  /\ idx' = [idx EXCEPT ![p] = 1]
                  /\ UNCHANGED <<username, mentionedUser, member>>
    /\ UNCHANGED <<evt, todo, snapshot, storeVars, boardVars, viewVars, regVars>>

\* safeCallListener without the deferred recover(): a panic of OnMention
\* unwinds BlockChanged, which ends there.
safeCallListener_NoRecover(p) ==
    /\ pc[p] = "notify"
    /\ LET l == snapshot[p][idx[p]]
           call == <<Notification(username[p], mentionedUser[p], l, evt[p])>>
       IN  IF Panics(l)
           THEN /\ Step(p, "done", call, <<>>)
                /\ UNCHANGED <<username, mentionedUser, member, idx>>
           ELSE IF idx[p] < Len(snapshot[p])
           THEN /\ Step(p, "notify", call, <<>>)
                /\ idx' = [idx EXCEPT ![p] = @ + 1]
                /\ UNCHANGED <<username, mentionedUser, member>>
           ELSE /\ Continue(p, call, <<>>)
                /\ idx' = [idx EXCEPT ![p] = 0]
    /\ UNCHANGED <<evt, todo, snapshot, storeVars, boardVars, viewVars, regVars>>

\* safeCallListener called in a loop over b.listeners itself in the place of
\* the copy (`for _, listener := range b.listeners`).
safeCallListener_LiveRegistry(p) ==
    /\ pc[p] = "notify"
    /\ IF idx[p] > Len(listeners)
       THEN /\ Continue(p, <<>>, <<>>)
            /\ idx' = [idx EXCEPT ![p] = 0]
            /\ UNCHANGED reg
       ELSE LET l == listeners[idx[p]]
                call == <<Notification(username[p], mentionedUser[p], l, evt[p])>>
            IN  IF Unregisters(l)
                THEN /\ Step(p, "callback", call, <<>>)
                     /\ reg' = [reg EXCEPT ![p] = [pc |-> "lock", op |-> "remove", l |-> l]]
                     /\ UNCHANGED <<username, mentionedUser, member, idx>>
                ELSE IF idx[p] < Len(listeners)
                THEN /\ Step(p, "notify", call, <<>>)
                     /\ idx' = [idx EXCEPT ![p] = @ + 1]
                     /\ UNCHANGED <<username, mentionedUser, member, reg>>
                ELSE /\ Continue(p, call, <<>>)
                     /\ idx' = [idx EXCEPT ![p] = 0]
                     /\ UNCHANGED reg
    /\ UNCHANGED <<evt, todo, snapshot, storeVars, boardVars, viewVars, listeners, mux>>

\* safeCallListener(listener, userID, evt, b.logger): a panic of OnMention is
\* recovered; a listener that unregisters itself is then inside RemoveListener.
safeCallListener(p) ==
    /\ pc[p] = "notify"
    /\ LET l == snapshot[p][idx[p]]
           call == <<Notification(username[p], mentionedUser[p], l, evt[p])>>
       IN  IF Unregisters(l)
           THEN /\ Step(p, "callback", call, <<>>)
                /\ reg' = [reg EXCEPT ![p] = [pc |-> "lock", op |-> "remove", l |-> l]]
                /\ UNCHANGED <<username, mentionedUser, member, idx>>
           ELSE IF idx[p] < Len(snapshot[p])
           THEN /\ Step(p, "notify", call, <<>>)
                /\ idx' = [idx EXCEPT ![p] = @ + 1]
                /\ UNCHANGED <<username, mentionedUser, member, reg>>
           ELSE /\ Continue(p, call, <<>>)
                /\ idx' = [idx EXCEPT ![p] = 0]
                /\ UNCHANGED reg
    /\ UNCHANGED <<evt, todo, snapshot, storeVars, boardVars, viewVars, listeners, mux>>

\* The OnMention of a listener that called RemoveListener returns, that call
\* having returned: safeCallListener returns to the loop of lines 146-148.
OnMentionReturns(p) ==
    /\ pc[p] = "callback"
    /\ reg[p].pc = "idle"
    /\ IF idx[p] < Len(snapshot[p])
       THEN /\ Step(p, "notify", <<>>, <<>>)
            /\ idx' = [idx EXCEPT ![p] = @ + 1]
            /\ UNCHANGED <<username, mentionedUser, member>>
       ELSE /\ Continue(p, <<>>, <<>>)
            /\ idx' = [idx EXCEPT ![p] = 0]
    /\ UNCHANGED <<evt, todo, snapshot, storeVars, boardVars, viewVars, regVars>>

\* The caller takes the result (merr.ErrorOrNil()); the goroutine is free again.
Return(p) ==
    /\ pc[p] = "done"
    /\ pc' = [pc EXCEPT ![p] = "idle"]
    /\ evt' = [evt EXCEPT ![p] = NoEvent]
    /\ snapshot' = [snapshot EXCEPT ![p] = <<>>]
    /\ merr' = [merr EXCEPT ![p] = <<>>]
    /\ log' = [log EXCEPT ![p] = <<>>]
    /\ UNCHANGED <<todo, username, mentionedUser, member, idx, storeVars, boardVars, viewVars, regVars>>

-----------------------------------------------------------------------------
(* Specifications. *)

\* The board tables at the start, the clock as read by the last insert; and
\* the component as constructed.
InitTables ==
    /\ boards = InitBoards.boards
    /\ boards_history = InitBoards.hist
    /\ now = 1
    /\ ret = NoBoardCall
    /\ selectedCards = <<>>
    /\ shownCard = Undefined
    /\ domEvent = NoDomEvent

InitCalls ==
    /\ pc = [p \in Calls |-> "idle"]
    /\ evt = [p \in Calls |-> NoEvent]
    /\ todo = [p \in Calls |-> {}]
    /\ username = [p \in Calls |-> ""]
    /\ mentionedUser = [p \in Calls |-> ""]
    /\ member = [p \in Calls |-> {}]
    /\ snapshot = [p \in Calls |-> <<>>]
    /\ idx = [p \in Calls |-> 0]
    /\ merr = [p \in Calls |-> <<>>]
    /\ log = [p \in Calls |-> <<>>]

\* A backend on the store, with the listeners l2 and l1 registered.
Init ==
    /\ board_members = InitStore.tbl
    /\ board_members_history = InitStore.hist
    /\ listeners = <<"l2", "l1">>
    /\ mux = NoLock
    /\ reg = [t \in Threads |-> NoRegistryCall]
    /\ InitCalls
    /\ InitTables

\* The steps of one BlockChanged call.
Run(p) ==
    \/ RLock(p)
    \/ CopyListeners(p)
    \/ RangeMentions(p)
    \/ UserByUsername(p)
    \/ HasPermissionToTeam(p)
    \/ HasPermissionToBoard(p)
    \/ GetMemberForBoard(p)
    \/ SaveMember(p)
    \/ BroadcastMemberChange(p)
    \/ MentionDeliver(p)
    \/ safeCallListener(p)

\* One goroutine handles change events one after another, whatever the event.
Next ==
    \/ \E e \in Events : BlockChanged(1, e)
    \/ Run(1)
    \/ Return(1)

Spec == Init /\ [][Next]_vars

\* The calls before p have returned and the calls after it have not begun.
InTurn(p) ==
    /\ \A q \in Calls : q < p => pc[q] = "done"
    /\ \A q \in Calls : q > p => pc[q] = "idle"

\* Change events on the open board are handled one after another, each by its
\* own call, and no member is removed; the calls keep their logs.
SeqNext ==
    \/ \E p \in Calls : \E e \in EnrollEvents : InTurn(p) /\ BlockChanged(p, e)
    \/ \E p \in Calls : Run(p)

SeqSpec == Init /\ [][SeqNext]_vars

\* Change events on the open board are handled by concurrent calls.
ConcNext ==
    \/ \E p \in Calls : \E e \in EnrollEvents : BlockChanged(p, e)
    \/ \E p \in Calls : Run(p)

ConcSpec == Init /\ [][ConcNext]_vars

\* Events for the runs with a changing registry: an editor newly mentions one
\* user or both on the private board, or bob on the open board.
ListenerEvents ==
    {Event(TRUE, "b2", TRUE, "update", "text", new, {}, EditorOf("b2")) :
        new \in (SUBSET Usernames) \ {{}}}
    \cup {Event(TRUE, "b1", TRUE, "update", "text", {"bob"}, {}, EditorOf("b1"))}

\* The listeners that are registered and unregistered in these runs.
Registered == {"l1", "l3"}

\* A backend on the store, with the listeners l3 and l1 registered.
ListenerInit ==
    /\ board_members = InitStore.tbl
    /\ board_members_history = InitStore.hist
    /\ listeners = <<"l3", "l1">>
    /\ mux = NoLock
    /\ reg = [t \in Threads |-> NoRegistryCall]
    /\ InitCalls
    /\ InitTables

\* One goroutine handles change events one after another; the listeners it
\* notifies may unregister themselves when called, and meanwhile another
\* goroutine registers and unregisters listeners.
ListenerNext ==
    \/ \E e \in ListenerEvents : BlockChanged(1, e)
    \/ Run(1)
    \/ OnMentionReturns(1)
    \/ Return(1)
    \/ \E r \in Registrars : \E l \in Registered : AddListener(r, l)
    \/ \E r \in Registrars : \E l \in Registered : RemoveListener(r, l)
    \/ \E t \in Threads : Lock(t)
    \/ \E t \in Threads : UpdateListeners(t)

ListenerSpec == ListenerInit /\ [][ListenerNext]_vars

\* The event of the runs that compare two calls: an editor newly mentions
\* alice and bob on the private board.
OrderEvents ==
    {Event(TRUE, "b2", TRUE, "update", "text", Usernames, {}, EditorOf("b2"))}

\* The same change event is handled twice, by one call after the other; the
\* calls keep their logs.
OrderNext ==
    \/ \E p \in Calls : \E e \in OrderEvents : InTurn(p) /\ BlockChanged(p, e)
    \/ \E p \in Calls : RLock(p)
    \/ \E p \in Calls : CopyListeners(p)
    \/ \E p \in Calls : RangeMentions(p)
    \/ \E p \in Calls : UserByUsername(p)
    \/ \E p \in Calls : HasPermissionToBoard(p)
    \/ \E p \in Calls : MentionDeliver(p)
    \/ \E p \in Calls : safeCallListener(p)

OrderSpec == Init /\ [][OrderNext]_vars

\* Events for the runs that race on the registry: alice is mentioned before
\* and after the edit, so that the call copies the registry and returns.
RegistryEvents ==
    {Event(TRUE, "b2", TRUE, "update", "text", {"alice"}, {"alice"}, EditorOf("b2"))}

\* One goroutine handles change events one after another, each call copying the
\* registry, while the other goroutines register and unregister listeners
\* concurrently; reading the registry and assigning it are separate steps.
RegistryNext ==
    \/ \E e \in RegistryEvents : BlockChanged(1, e)
    \/ RLock(1)
    \/ CopyListeners(1)
    \/ RangeMentions(1)
    \/ Return(1)
    \/ \E t \in Threads \ {1} : \E l \in Registered : AddListener(t, l)
    \/ \E t \in Threads \ {1} : \E l \in Registered : RemoveListener(t, l)
    \/ \E t \in Threads \ {1} : Lock(t)
    \/ \E t \in Threads \ {1} : LoadListeners(t)
    \/ \E t \in Threads \ {1} : StoreListeners(t)

RegistrySpec == ListenerInit /\ [][RegistryNext]_vars

\* Events for the runs under fairness: an editor newly mentions alice on the
\* private board.
FairEvents == {Event(TRUE, "b2", TRUE, "update", "text", {"alice"}, {}, EditorOf("b2"))}

\* Concurrent calls of BlockChanged, each made once, whose listeners may
\* unregister themselves when called, while another goroutine registers and
\* unregisters the listener l3.
FairNext ==
    \/ \E p \in Calls : \E e \in FairEvents : BlockChanged(p, e)
    \/ \E p \in Calls : RLock(p)
    \/ \E p \in Calls : CopyListeners(p)
    \/ \E p \in Calls : RangeMentions(p)
    \/ \E p \in Calls : UserByUsername(p)
    \/ \E p \in Calls : HasPermissionToBoard(p)
    \/ \E p \in Calls : MentionDeliver(p)
    \/ \E p \in Calls : safeCallListener(p)
    \/ \E p \in Calls : OnMentionReturns(p)
    \/ \E r \in Registrars : AddListener(r, "l3")
    \/ \E r \in Registrars : RemoveListener(r, "l3")
    \/ \E t \in Threads : Lock(t)
    \/ \E t \in Threads : UpdateListeners(t)

\* The steps of call p that take no lock: collaborators and listeners return,
\* and the goroutine is scheduled.
Proceeds(p) ==
    \/ CopyListeners(p)
    \/ RangeMentions(p)
    \/ UserByUsername(p)
    \/ HasPermissionToBoard(p)
    \/ MentionDeliver(p)
    \/ safeCallListener(p)
    \/ OnMentionReturns(p)

\* Every goroutine is scheduled, and sync.RWMutex starves neither readers nor
\* writers: a goroutine that could take the lock again and again does take it.
Fairness ==
    /\ \A p \in Calls : WF_vars(Proceeds(p)) /\ SF_vars(RLock(p))
    /\ \A t \in Threads : WF_vars(UpdateListeners(t)) /\ SF_vars(Lock(t))

FairSpec == ListenerInit /\ [][FairNext]_vars /\ Fairness

-----------------------------------------------------------------------------
(* What the properties speak of. *)

Started(p) == pc[p] # "idle"

HasActor(e) == e.modifiedBy # {}
IsOpen(e) == BoardTypeOf(e.board) = BoardTypeOpen
ActorAdmin(e) == \E m \in e.modifiedBy : m.SchemeAdmin
ActorEditor(e) == \E m \in e.modifiedBy : m.SchemeEditor
ActorCommenter(e) == \E m \in e.modifiedBy : m.SchemeCommenter
ActorViewer(e) == \E m \in e.modifiedBy : m.SchemeViewer
\* The actor has admin, editor or commenter capability.
ActorCanWrite(e) == ActorAdmin(e) \/ ActorEditor(e) \/ ActorCommenter(e)

\* Call p is processing the mention of name and stands at place.
At(p, name, place) == pc[p] = place /\ username[p] = name

\* The entries of call p's log for the mention of name.
EntriesOf(p, op, name) ==
    {i \in 1 .. Len(log[p]) : log[p][i].op = op /\ log[p][i].name = name}

MembershipOps == {"GetMemberForBoard", "SaveMember", "BroadcastMemberChange"}

\* C1: a username mentioned in the old block and in the new block is never
\* evaluated: no collaborator is called for it, no error is collected for it
\* and it never becomes the mention being processed.
C1_OldMentionNeverEvaluated ==
    \A p \in Calls : \A name \in evt[p].mentions \cap evt[p].oldMentions :
        /\ \A i \in 1 .. Len(log[p]) : log[p][i].name # name
        /\ \A i \in 1 .. Len(merr[p]) : merr[p][i].name # name
        /\ username[p] # name

\* A call has returned that skipped alice (mentioned before and after the
\* edit) and delivered the new mention of bob to a listener.
C1_Witness ==
    \E p \in Calls :
        /\ pc[p] = "done"
        /\ evt[p].mentions = {"alice", "bob"}
        /\ evt[p].oldMentions = {"alice"}
        /\ LoggedRes(p, "MentionDeliver", "bob", "ok")
        /\ LoggedRes(p, "OnMention", "bob", "ok")

\* C4: a mention that ended in a permission error has had no SaveMember, no
\* BroadcastMemberChange and no MentionDeliver.
C4_DeniedNeverMutates ==
    \A p \in Calls : \A name \in Usernames :
        Failed(p, name, "permission") =>
            /\ ~Logged(p, "SaveMember", name)
            /\ ~Logged(p, "BroadcastMemberChange", name)
            /\ ~Logged(p, "MentionDeliver", name)

\* An editor's mention of a user outside the team was denied on the open board.
C4_Witness ==
    \E p \in Calls : \E name \in Usernames :
        /\ pc[p] = "done"
        /\ IsOpen(evt[p]) /\ ActorEditor(evt[p])
        /\ LoggedRes(p, "HasPermissionToTeam", name, "false")
        /\ Failed(p, name, "permission")

\* C5: for an actor whose only capability is viewer, a mention that resolves
\* to a user is a permission error and is never delivered, on either board.
C5_ViewerAlwaysDenied ==
    \A p \in Calls : \A name \in Usernames :
        ( /\ ActorViewer(evt[p]) /\ ~ActorCanWrite(evt[p])
          /\ LoggedRes(p, "UserByUsername", name, "found") )
        => /\ Failed(p, name, "permission")
           /\ ~Logged(p, "MentionDeliver", name)

\* A viewer mentioned a user on the private board and the call has returned.
C5_Witness ==
    \E p \in Calls : \E name \in Usernames :
        /\ pc[p] = "done"
        /\ ~IsOpen(evt[p])
        /\ ActorViewer(evt[p]) /\ ~ActorCanWrite(evt[p])
        /\ LoggedRes(p, "UserByUsername", name, "found")
        /\ Failed(p, name, "permission")

\* C6: in a call on an event without acting user nothing is delivered, saved
\* or broadcast, and every mention that resolves to a user is a permission
\* error.
C6_NoActorNoDelivery ==
    \A p \in Calls :
        (Started(p) /\ ~HasActor(evt[p])) =>
            /\ \A i \in 1 .. Len(log[p]) :
                   log[p][i].op \notin {"MentionDeliver", "SaveMember", "BroadcastMemberChange"}
            /\ \A name \in Usernames :
                   LoggedRes(p, "UserByUsername", name, "found") =>
                       Failed(p, name, "permission")

\* A call without acting user has returned with both mentions resolved and denied.
C6_Witness ==
    \E p \in Calls :
        /\ pc[p] = "done"
        /\ ~HasActor(evt[p])
        /\ \A name \in Usernames :
               /\ LoggedRes(p, "UserByUsername", name, "found")
               /\ Failed(p, name, "permission")

\* C7: on an open board with an actor that can write, a resolved mention goes
\* to the team check first; when the check answers no, the mention is a
\* permission error and no membership lookup, save, broadcast or delivery is
\* made for it.
C7_NonTeamMemberDenied ==
    \A p \in Calls : \A name \in Usernames :
        (IsOpen(evt[p]) /\ ActorCanWrite(evt[p])) =>
            /\ LoggedRes(p, "UserByUsername", name, "found") =>
                   At(p, name, "teamperm") \/ Logged(p, "HasPermissionToTeam", name)
            /\ LoggedRes(p, "HasPermissionToTeam", name, "false") =>
                   /\ Failed(p, name, "permission")
                   /\ \A op \in MembershipOps \cup {"MentionDeliver"} : ~Logged(p, op, name)

\* A commenter mentioned a user outside the team on the open board, and the
\* mention was denied.
C7_Witness ==
    \E p \in Calls : \E name \in Usernames :
        /\ IsOpen(evt[p]) /\ ActorCommenter(evt[p]) /\ ~ActorEditor(evt[p])
        /\ LoggedRes(p, "HasPermissionToTeam", name, "false")
        /\ Failed(p, name, "permission")
        /\ pc[p] = "range"

GuestOnOpen(e) == HasActor(e) /\ IsOpen(e) /\ ~ActorCanWrite(e) /\ ~ActorViewer(e)
\* The actor is anyone but a viewer, on a private board.
NonViewerOnPrivate(e) == HasActor(e) /\ ~IsOpen(e) /\ ~ActorViewer(e)

\* C9: for a guest on an open board and for a non-viewer on a private board,
\* a resolved mention goes to the board check; MentionDeliver is called for
\* it if and only if the check answered yes, and a no is a permission error.
C9_BoardPermissionDecides ==
    \A p \in Calls : \A name \in Usernames :
        (GuestOnOpen(evt[p]) \/ NonViewerOnPrivate(evt[p])) =>
            /\ LoggedRes(p, "UserByUsername", name, "found") =>
                   At(p, name, "boardperm") \/ Logged(p, "HasPermissionToBoard", name)
            /\ Logged(p, "MentionDeliver", name) =>
                   LoggedRes(p, "HasPermissionToBoard", name, "true")
            /\ LoggedRes(p, "HasPermissionToBoard", name, "true") =>
                   At(p, name, "deliver") \/ Logged(p, "MentionDeliver", name)
            /\ LoggedRes(p, "HasPermissionToBoard", name, "false") =>
                   /\ Failed(p, name, "permission")
                   /\ ~Logged(p, "MentionDeliver", name)

\* On the private board an editor mentioned alice, who may view the board and
\* was delivered, and bob, who may not and was denied.
C9_Witness ==
    \E p \in Calls :
        /\ pc[p] = "done"
        /\ NonViewerOnPrivate(evt[p]) /\ ActorEditor(evt[p])
        /\ LoggedRes(p, "HasPermissionToBoard", "alice", "true")
        /\ LoggedRes(p, "MentionDeliver", "alice", "ok")
        /\ LoggedRes(p, "HasPermissionToBoard", "bob", "false")
        /\ Failed(p, "bob", "permission")

\* C10: SaveMember and BroadcastMemberChange are called only for a mention on
\* an open board by an actor that can write, after the team check answered
\* yes for the mentioned user.
C10_EnrollOnlyOnOpenBoard ==
    \A p \in Calls : \A name \in Usernames :
        (Logged(p, "SaveMember", name) \/ Logged(p, "BroadcastMemberChange", name)) =>
            /\ IsOpen(evt[p])
            /\ ActorCanWrite(evt[p])
            /\ LoggedRes(p, "HasPermissionToTeam", name, "true")

\* A commenter's mention of bob on the open board enrolled him.
C10_Witness ==
    \E p \in Calls :
        /\ IsOpen(evt[p]) /\ ActorCommenter(evt[p])
        /\ LoggedRes(p, "HasPermissionToTeam", "bob", "true")
        /\ LoggedRes(p, "SaveMember", "bob", "ok")
        /\ Logged(p, "BroadcastMemberChange", "bob")

\* The calls that saved a member for name, and those that broadcast one.
SavedBy(name) == {p \in Calls : LoggedRes(p, "SaveMember", name, "ok")}
BroadcastBy(name) == {p \in Calls : Logged(p, "BroadcastMemberChange", name)}

\* C2: over calls handled one after another on the open board by editors and
\* commenters, each user is saved as member by at most one call and
\* broadcast by at most one call, and the store holds at most one row for the
\* user on the board.
C2_EnrolledAtMostOnce ==
    \A name \in Usernames :
        /\ Cardinality(SavedBy(name)) <= 1
        /\ Cardinality(BroadcastBy(name)) <= 1
        /\ Cardinality(getMemberForBoard(board_members, "b1", UserIdOf(name))) <= 1

\* C3: of concurrent calls that newly mention the same user on the open board
\* and whose membership lookup reported no membership, at most one saves the
\* member and at most one broadcasts it.
C3_ConcurrentEnrollOnce ==
    \A name \in Usernames :
        LET unenrolled == {p \in Calls : LoggedRes(p, "GetMemberForBoard", name, "notfound")}
        IN  /\ Cardinality(SavedBy(name) \cap unenrolled) <= 1
            /\ Cardinality(BroadcastBy(name) \cap unenrolled) <= 1

\* The mentions of call p's event that are in the new block only.
NewOnly(p) == evt[p].mentions \ evt[p].oldMentions

\* The errors call p collected for name.
ErrorsFor(p, name) == {i \in 1 .. Len(merr[p]) : merr[p][i].name = name}

\* The mention of name was delivered without error.
Delivered(p, name) == LoggedRes(p, "MentionDeliver", name, "ok")
\* name resolved to no user: the benign skip.
Skipped(p, name) == LoggedRes(p, "UserByUsername", name, "notfound")

\* C11: when a call that passed the guards returns, every username in the new
\* block only has had exactly one delivery attempt, the collected error holds
\* exactly one entry for every username whose attempt failed and none for any
\* other, and it is empty (nil is returned) exactly when every such username
\* was delivered or skipped as unknown.
C11_FailuresCollected ==
    \A p \in Calls :
        (pc[p] = "done" /\ evt[p].hasBoard /\ evt[p].hasCard /\ evt[p].action # "delete"
                        /\ evt[p].blockType \in {"text", "comment", "image"}) =>
            /\ \A name \in NewOnly(p) : Cardinality(EntriesOf(p, "UserByUsername", name)) = 1
            /\ \A name \in Usernames :
                   Cardinality(ErrorsFor(p, name)) =
                       IF name \in NewOnly(p) /\ ~Delivered(p, name) /\ ~Skipped(p, name)
                       THEN 1 ELSE 0
            /\ (merr[p] = <<>>) <=>
                   \A name \in NewOnly(p) : Delivered(p, name) \/ Skipped(p, name)

\* A call has returned whose first mention failed at the lookup and whose
\* second mention was delivered after it: one error, tagged with the first.
C11_Witness ==
    \E p \in Calls : \E first, second \in Usernames :
        /\ pc[p] = "done"
        /\ NewOnly(p) = {first, second} /\ first # second
        /\ \E i, j \in 1 .. Len(log[p]) :
               /\ i < j
               /\ log[p][i].op = "UserByUsername" /\ log[p][i].name = first
               /\ log[p][i].res = "error"
               /\ log[p][j].op = "MentionDeliver" /\ log[p][j].name = second
               /\ log[p][j].res = "ok"
        /\ Len(merr[p]) = 1 /\ merr[p][1].name = first

\* C12: a username that resolves to no user is skipped without a trace: no
\* error is collected for it and nothing but the lookup is called for it (no
\* permission check, membership access, broadcast, delivery or listener); a
\* lookup that failed otherwise leaves an error tagged with the username, and
\* nothing but the lookup is called for it either.
C12_NotFoundIsBenign ==
    \A p \in Calls : \A name \in Usernames :
        /\ LoggedRes(p, "UserByUsername", name, "notfound") =>
               /\ ErrorsFor(p, name) = {}
               /\ \A i \in 1 .. Len(log[p]) :
                      log[p][i].name = name => log[p][i].op = "UserByUsername"
               /\ ~At(p, name, "notify")
        /\ LoggedRes(p, "UserByUsername", name, "error") =>
               /\ Failed(p, name, "lookup")
               /\ \A i \in 1 .. Len(log[p]) :
                      log[p][i].name = name => log[p][i].op = "UserByUsername"

\* A call has returned nil whose only mention resolved to no user: the lookup
\* is all it called.
C12_Witness ==
    \E p \in Calls : \E name \in Usernames :
        /\ pc[p] = "done"
        /\ NewOnly(p) = {name}
        /\ LoggedRes(p, "UserByUsername", name, "notfound")
        /\ merr[p] = <<>>
        /\ Len(log[p]) = 1

\* The events spec section 4.1 names as not processed.
NotProcessed(e) ==
    \/ ~e.hasBoard
    \/ ~e.hasCard
    \/ e.action = "delete"
    \/ e.blockType \notin {"text", "comment", "image"}

\* C13: a BlockChanged call on an event without board, without card, with
\* action delete or with a block type other than text, comment and image
\* returns at once with nil: its first step ends the call with no collaborator
\* or listener called and no error, and leaves the store, the registry and the
\* lock as they were.
C13_IgnoredEventIsNoOp ==
    [][\A p \in Calls :
          (pc[p] = "idle" /\ pc'[p] # "idle" /\ NotProcessed(evt'[p])) =>
              /\ pc'[p] = "done"
              /\ log'[p] = <<>>
              /\ merr'[p] = <<>>
              /\ snapshot'[p] = <<>>
              /\ UNCHANGED <<board_members, board_members_history, listeners, mux>>]_vars

\* A call on the deletion of a text block of a card (with a mention in it)
\* has returned nil, nothing called.
C13_Witness ==
    \E p \in Calls :
        /\ pc[p] = "done"
        /\ evt[p].hasBoard /\ evt[p].hasCard
        /\ evt[p].action = "delete" /\ evt[p].blockType = "text"
        /\ evt[p].mentions # {}
        /\ log[p] = <<>> /\ merr[p] = <<>>

\* C14: however often BlockChanged is called on events whose old and new block
\* carry the same mentions, every step of such a call leaves the membership
\* table and its history as they were, the call never calls a collaborator
\* or a listener, collects no error and so returns nil.
C14_SameMentionsNoEffect ==
    [][\A p \in Calls :
          (pc'[p] # "idle" /\ evt'[p].mentions = evt'[p].oldMentions) =>
              /\ log'[p] = <<>>
              /\ merr'[p] = <<>>
              /\ pc'[p] \in {"rlock", "copy", "range", "done"}
              /\ UNCHANGED <<board_members, board_members_history>>]_vars

\* A call on an event that mentions alice and bob before and after the edit
\* has visited both and returned nil.
C14_Witness ==
    \E p \in Calls :
        /\ pc[p] = "done"
        /\ ~NotProcessed(evt[p])
        /\ evt[p].mentions = Usernames /\ evt[p].oldMentions = Usernames
        /\ todo[p] = {}
        /\ snapshot[p] = listeners /\ listeners # <<>>
        /\ log[p] = <<>> /\ merr[p] = <<>>

\* The OnMention calls call p made for the mention of name, in the order made.
NotificationsOf(p, name) ==
    SelectSeq(log[p], LAMBDA x : x.op = "OnMention" /\ x.name = name)

\* Call p has finished the fan-out for name, if it was to make one.
FannedOut(p, name) == Logged(p, "MentionDeliver", name) /\ username[p] # name

\* C15: while the registry does not change, once a mention was delivered
\* without error and its fan-out is over, the OnMention calls made for it are
\* exactly the registrations, one call per registration and in their order,
\* each with the user id the delivery returned and the event given to
\* BlockChanged.
C15_EveryListenerNotifiedOnce ==
    \A p \in Calls : \A name \in Usernames :
        (Delivered(p, name) /\ FannedOut(p, name)) =>
            LET calls == NotificationsOf(p, name)
            IN  /\ Len(calls) = Len(listeners)
                /\ \A i \in 1 .. Len(calls) :
                       /\ calls[i].lsn = listeners[i]
                       /\ \E j \in EntriesOf(p, "MentionDeliver", name) :
                              calls[i].id = log[p][j].id
                       /\ calls[i].id = UserIdOf(name)
                       /\ calls[i].evt = evt[p]

\* Both mentions of a call were delivered and both registered listeners were
\* called for each of them.
C15_Witness ==
    \E p \in Calls :
        /\ pc[p] = "done"
        /\ Len(listeners) = 2
        /\ \A name \in Usernames :
               /\ Delivered(p, name)
               /\ Len(NotificationsOf(p, name)) = 2

\* A listener panicked when called for call p's mention of name.
PanickedFor(p, name) == LoggedRes(p, "OnMention", name, "panic")

\* C16: a listener that panics is isolated. Once the fan-out of a mention in
\* which a listener panicked is over, every listener of the call's copy was
\* called for it, in the copy's order; and a call in which a listener panicked
\* returns only after every mention of the new block only was attempted, with
\* the errors of the failed attempts and no other.
C16_PanicIsolated ==
    \A p \in Calls : \A name \in Usernames :
        PanickedFor(p, name) =>
            /\ (pc[p] = "done" \/ username[p] # name) =>
                   LET calls == NotificationsOf(p, name)
                   IN  /\ Len(calls) = Len(snapshot[p])
                       /\ \A i \in 1 .. Len(calls) : calls[i].lsn = snapshot[p][i]
            /\ pc[p] = "done" =>
                   /\ \A other \in NewOnly(p) : Logged(p, "UserByUsername", other)
                   /\ \A other \in Usernames :
                          ErrorsFor(p, other) # {} <=>
                              (other \in NewOnly(p) /\ ~Delivered(p, other) /\ ~Skipped(p, other))
                   /\ \A i \in 1 .. Len(merr[p]) :
                          merr[p][i].kind \in {"lookup", "permission", "save", "deliver"}

\* The first listener panicked for both mentions of a call; the second
\* listener was called after it each time and the call returned nil.
C16_Witness ==
    \E p \in Calls :
        /\ pc[p] = "done"
        /\ NewOnly(p) = Usernames
        /\ merr[p] = <<>>
        /\ \A name \in Usernames :
               LET calls == NotificationsOf(p, name)
               IN  /\ Len(calls) = 2
                   /\ calls[1].res = "panic"
                   /\ calls[2].res = "ok"

\* The places of a call where a collaborator is about to be called or a
\* listener's OnMention is about to run or is running.
Outside == {"lookup", "teamperm", "boardperm", "getmember", "save", "broadcast",
            "deliver", "notify", "callback"}

\* C17: a BlockChanged call holds the registry lock for reading exactly while
\* it copies the registry, and never for writing: at every collaborator call
\* and at every listener call it holds the lock in neither way. (The lock a
\* listener takes by calling RemoveListener from OnMention is held by that
\* RemoveListener call, from its Lock to its Unlock.)
C17_NoLockHeldOutsideCopy ==
    \A p \in Calls :
        /\ p \in mux.readers <=> pc[p] = "copy"
        /\ p \in mux.writer => reg[p].pc = "locked"
        /\ (pc[p] \in Outside /\ reg[p].pc # "locked") =>
               p \notin mux.readers /\ p \notin mux.writer

\* While a call is about to run a listener's OnMention, another goroutine
\* holds the lock for writing.
C17_Witness ==
    \E p \in Calls : \E r \in Registrars :
        /\ pc[p] = "notify"
        /\ Logged(p, "MentionDeliver", username[p])
        /\ mux.writer = {r}
        /\ mux.readers = {}

\* C18: with collaborators and listeners that return, every BlockChanged call
\* that began returns, and every AddListener and RemoveListener call that
\* began returns, whether made by another goroutine or by a listener from
\* inside its OnMention, in every interleaving.
C18_EveryCallReturns ==
    /\ \A p \in Calls : (pc[p] # "idle") ~> (pc[p] = "done")
    /\ \A t \in Threads : (reg[t].pc # "idle") ~> (reg[t].pc = "idle")

\* Two calls have returned; in each the listener l3 was called and its
\* RemoveListener call from inside OnMention has returned.
C18_Witness ==
    /\ \A p \in Calls :
           /\ pc[p] = "done"
           /\ \E i \in 1 .. Len(log[p]) : log[p][i].op = "OnMention" /\ log[p][i].lsn = "l3"
           /\ reg[p] = NoRegistryCall
    /\ \A i \in 1 .. Len(listeners) : listeners[i] # "l3"

\* The delivery of name returned a user id (with or without an error), so a
\* fan-out follows it.
ReturnedUser(p, name) ==
    \E i \in EntriesOf(p, "MentionDeliver", name) : log[p][i].id # ""

\* The listeners called for the mention of name, in the order called.
NotifiedFor(p, name) ==
    LET calls == NotificationsOf(p, name)
    IN  [i \in 1 .. Len(calls) |-> calls[i].lsn]

\* C19: the fan-out uses a point-in-time copy. The copy a call takes is the
\* registry at that moment and stays what it is until the call returns,
\* whatever is registered or unregistered meanwhile, by another goroutine or
\* by a listener inside its OnMention; and for every mention of the call whose
\* fan-out is over, the listeners called are the listeners of the copy, in the
\* copy's order.
C19_FanoutUsesCopy ==
    /\ [][\A p \in Calls :
             /\ (pc[p] = "copy" /\ pc'[p] # "copy") => snapshot'[p] = listeners
             /\ (pc[p] \notin {"idle", "rlock", "copy", "done"}) => snapshot'[p] = snapshot[p]]_vars
    /\ [](\A p \in Calls : \A name \in Usernames :
             (ReturnedUser(p, name) /\ username[p] # name) =>
                 NotifiedFor(p, name) = snapshot[p])

\* A call copied the registry (l3, l1); l3 unregistered itself when called for
\* the first mention, and was called again, before l1, for the second.
C19_Witness ==
    \E p \in Calls :
        /\ pc[p] = "done"
        /\ snapshot[p] = <<"l3", "l1">>
        /\ \A i \in 1 .. Len(listeners) : listeners[i] # "l3"
        /\ \A name \in Usernames :
               ReturnedUser(p, name) /\ NotifiedFor(p, name) = <<"l3", "l1">>

\* Thread t's RemoveListener call does its work in this step.
Removes(t) == reg[t].pc = "locked" /\ reg[t].op = "remove" /\ reg'[t].pc = "idle"

Stores(t) == reg[t].pc = "loaded" /\ reg'[t].pc = "idle"

\* C21: registration is thread-safe. At most one goroutine is inside the body
\* of AddListener or RemoveListener, and none is while a BlockChanged call
\* copies the registry; so each such call leaves the registry as it was at
\* that moment with its own listener appended, or removed, and nothing else
\* changed: no registration made meanwhile is lost and no removal undone.
C21_RegistrationThreadSafe ==
    /\ [](/\ Cardinality(mux.writer) <= 1
          /\ mux.writer # {} => mux.readers = {}
          /\ \A t \in Threads : reg[t].pc \in {"locked", "loaded"} <=> t \in mux.writer)
    /\ [][\A t \in Threads :
             Stores(t) =>
                 listeners' = IF reg[t].op = "add"
                              THEN Append(listeners, reg[t].l)
                              ELSE SelectSeq(listeners, LAMBDA x : x # reg[t].l)]_vars

\* After l3 was removed, one goroutine is about to assign the registry while
\* another waits for the lock with a call for another listener and a
\* BlockChanged call waits to copy the registry.
C21_Witness ==
    \E t, u \in Threads :
        /\ listeners = <<"l1">>
        /\ reg[t].pc = "loaded" /\ reg[t].op = "add" /\ reg[t].l = "l3"
        /\ reg[u].pc = "lock" /\ reg[u].op = "remove" /\ reg[u].l = "l1"
        /\ pc[1] = "rlock"

\* The collaborator and listener calls call p made, in the order made.
CallsMade(p) ==
    [i \in 1 .. Len(log[p]) |-> <<log[p][i].op, log[p][i].name, log[p][i].lsn, log[p][i].res>>]

\* What the collaborators and listeners answered to call p, whatever the order.
Answers(p) == {CallsMade(p)[i] : i \in 1 .. Len(log[p])}

\* C22: two calls that have returned, on the same event and with the same
\* answers of the collaborators, made the same calls in the same order and
\* collected the same errors in the same order.
C22_SameOrderEveryRun ==
    \A p, q \in Calls :
        ( /\ pc[p] = "done" /\ pc[q] = "done"
          /\ evt[p] = evt[q]
          /\ Answers(p) = Answers(q) )
        => /\ CallsMade(p) = CallsMade(q)
           /\ merr[p] = merr[q]

\* C23: nothing is retried. In one call UserByUsername and MentionDeliver are
\* each called at most once for a username, also when the call failed; and a
\* delivery that failed has left its error, tagged with the username, in the
\* error the call returns.
C23_NoRetries ==
    \A p \in Calls : \A name \in Usernames :
        /\ Cardinality(EntriesOf(p, "UserByUsername", name)) <= 1
        /\ Cardinality(EntriesOf(p, "MentionDeliver", name)) <= 1
        /\ \A i \in EntriesOf(p, "MentionDeliver", name) :
               log[p][i].res # "ok" => Failed(p, name, "deliver")
        /\ LoggedRes(p, "UserByUsername", name, "error") => Failed(p, name, "lookup")

\* A call has returned in which the delivery to alice failed at the direct
\* channel and the lookup of bob failed: each was tried once and each left
\* one error.
C23_Witness ==
    \E p \in Calls :
        /\ pc[p] = "done"
        /\ LoggedRes(p, "MentionDeliver", "alice", "channel")
        /\ LoggedRes(p, "UserByUsername", "bob", "error")
        /\ Cardinality(EntriesOf(p, "MentionDeliver", "alice")) = 1
        /\ Cardinality(EntriesOf(p, "UserByUsername", "bob")) = 1
        /\ Len(merr[p]) = 2

\* The positions of the calls of the plugin API named call in the calls made.
ApiCalls(api, call) == {i \in 1 .. Len(api) : api[i].call = call}

\* C24: every MentionDeliver of the plugin looks up the author first; when
\* that fails it does nothing more and returns no user id; else it asks for
\* the direct channel of the mentioned user and the bot, and when that fails
\* it creates no post and returns no user id; else it creates exactly one
\* post, as its last call, authored by the bot in that channel; and when
\* nothing failed it returns the mentioned user's id.
C24_DeliverResolvesThenPosts ==
    \A p \in Calls : \A i \in 1 .. Len(log[p]) :
        log[p][i].op = "MentionDeliver" =>
            LET d == log[p][i]
                user == UserIdOf(d.name)
                posts == ApiCalls(d.api, "CreatePost")
            IN  /\ d.api[1] = ApiCall("GetUserByID", <<ActorId>>)
                /\ d.res = "author" => Len(d.api) = 1 /\ d.id = ""
                /\ d.res # "author" =>
                       d.api[2] = ApiCall("GetDirectChannel", <<user, BotId>>)
                /\ d.res = "channel" => Len(d.api) = 2 /\ d.id = ""
                /\ d.res \in {"author", "channel"} => posts = {}
                /\ d.res \in {"post", "ok"} =>
                       /\ posts = {3} /\ Len(d.api) = 3
                       /\ d.api[3] = ApiCall("CreatePost", <<BotId, DirectChannel(user, BotId)>>)
                /\ d.res = "ok" => d.id = user

\* In one call the delivery to alice made its post and returned her id, and
\* the delivery to bob found no direct channel and made no post.
C24_Witness ==
    \E p \in Calls : \E i, j \in 1 .. Len(log[p]) :
        /\ pc[p] = "done"
        /\ log[p][i].op = "MentionDeliver" /\ log[p][i].name = "alice"
        /\ log[p][i].res = "ok" /\ log[p][i].id = "u_alice"
        /\ ApiCalls(log[p][i].api, "CreatePost") # {}
        /\ log[p][j].op = "MentionDeliver" /\ log[p][j].name = "bob"
        /\ log[p][j].res = "channel" /\ log[p][j].id = ""
        /\ ApiCalls(log[p][j].api, "CreatePost") = {}

\* C25: every permission error collected for a mention names the acting user
\* (when the event has one), the mentioned user and the board.
C25_PermissionErrorNamesAll ==
    \A p \in Calls : \A i \in 1 .. Len(merr[p]) :
        merr[p][i].kind = "permission" =>
            /\ \A m \in evt[p].modifiedBy : m.UserID \in merr[p][i].ids
            /\ UserIdOf(merr[p][i].name) \in merr[p][i].ids
            /\ evt[p].board \in merr[p][i].ids

\* C26: a member is saved, and broadcast, for a mention only when the
\* membership lookup reported that the user has no membership; after a lookup
\* that failed there is no SaveMember and no broadcast for the mention.
C26_OnlyAbsenceInserts ==
    \A p \in Calls : \A name \in Usernames :
        /\ Logged(p, "SaveMember", name) => LoggedRes(p, "GetMemberForBoard", name, "notfound")
        /\ LoggedRes(p, "GetMemberForBoard", name, "error") =>
               /\ ~Logged(p, "SaveMember", name)
               /\ ~Logged(p, "BroadcastMemberChange", name)
               /\ ~At(p, name, "save")

\* C27: for a mention whose delivery attempt left an error in the error the
\* call returns, no listener's OnMention is called.
C27_ListenersOnlyOnSuccess ==
    \A p \in Calls : \A name \in Usernames :
        ErrorsFor(p, name) # {} => ~Logged(p, "OnMention", name)

\* The saves of call p for name that succeeded.
SavesDone(p, name) == {i \in EntriesOf(p, "SaveMember", name) : log[p][i].res = "ok"}

\* C28: within one mention the membership lookup comes before the save, the
\* save before the broadcast and both before the delivery; a broadcast follows
\* a save that succeeded at once and there is one broadcast per such save;
\* after a save that failed the mention has its error and neither a broadcast
\* nor a delivery.
C28_EnrollStepsOrdered ==
    \A p \in Calls : \A name \in Usernames :
        /\ \A i \in EntriesOf(p, "SaveMember", name) :
               \E j \in EntriesOf(p, "GetMemberForBoard", name) : j = i - 1
        /\ \A i \in EntriesOf(p, "BroadcastMemberChange", name) : i - 1 \in SavesDone(p, name)
        /\ \A i \in SavesDone(p, name) :
               \/ At(p, name, "broadcast") /\ i = Len(log[p])
               \/ i + 1 \in EntriesOf(p, "BroadcastMemberChange", name)
        /\ Cardinality(EntriesOf(p, "BroadcastMemberChange", name))
               <= Cardinality(SavesDone(p, name))
        /\ \A i \in EntriesOf(p, "MentionDeliver", name) :
               \A j \in EntriesOf(p, "GetMemberForBoard", name)
                        \cup EntriesOf(p, "SaveMember", name)
                        \cup EntriesOf(p, "BroadcastMemberChange", name) : j < i
        /\ LoggedRes(p, "SaveMember", name, "error") =>
               /\ Failed(p, name, "save")
               /\ ~Logged(p, "BroadcastMemberChange", name)
               /\ ~Logged(p, "MentionDeliver", name)
               /\ username[p] # name

\* In one call bob was looked up, saved, broadcast and delivered, in that
\* order, and the save of alice failed: an error and nothing more for her.
C28_Witness ==
    \E p \in Calls : \E i \in 1 .. Len(log[p]) :
        /\ pc[p] = "done"
        /\ log[p][i].op = "GetMemberForBoard" /\ log[p][i].name = "bob"
        /\ i + 3 <= Len(log[p])
        /\ log[p][i + 1].op = "SaveMember" /\ log[p][i + 1].res = "ok"
        /\ log[p][i + 2].op = "BroadcastMemberChange"
        /\ log[p][i + 3].op = "MentionDeliver" /\ log[p][i + 3].name = "bob"
        /\ LoggedRes(p, "SaveMember", "alice", "error")
        /\ Failed(p, "alice", "save")

\* C29: the first rule that matches decides. On an open board a mention by an
\* actor with the viewer flag and also the admin, editor or commenter flag is
\* handled like that of an admin, editor or commenter: once resolved it goes
\* to the team check, no viewer denial is made, and a team member goes on to
\* the membership lookup and the delivery. On a private board a mention by an
\* actor with the viewer flag is denied once resolved, whatever other flags are
\* set, with no permission check and no delivery.
C29_FirstMatchWins ==
    \A p \in Calls : \A name \in Usernames :
        LET e == evt[p]
            found == LoggedRes(p, "UserByUsername", name, "found")
        IN  /\ (IsOpen(e) /\ ActorViewer(e) /\ ActorCanWrite(e) /\ found) =>
                   /\ At(p, name, "teamperm") \/ Logged(p, "HasPermissionToTeam", name)
                   /\ ~Logged(p, "HasPermissionToBoard", name)
                   /\ LoggedRes(p, "HasPermissionToTeam", name, "true") =>
                          /\ ~Failed(p, name, "permission")
                          /\ At(p, name, "getmember") \/ Logged(p, "GetMemberForBoard", name)
                   /\ LoggedRes(p, "HasPermissionToTeam", name, "false") <=>
                          Failed(p, name, "permission")
            /\ (~IsOpen(e) /\ ActorViewer(e) /\ found) =>
                   /\ Failed(p, name, "permission")
                   /\ \A i \in 1 .. Len(log[p]) :
                          log[p][i].name = name => log[p][i].op = "UserByUsername"

\* A call by an actor who is viewer and editor has enrolled and delivered bob
\* on the open board.
C29_Witness ==
    \E p \in Calls :
        /\ pc[p] = "done"
        /\ IsOpen(evt[p]) /\ ActorViewer(evt[p]) /\ ActorEditor(evt[p])
        /\ LoggedRes(p, "SaveMember", "bob", "ok")
        /\ LoggedRes(p, "MentionDeliver", "bob", "ok")

\* C30: mention processing never changes the role bits of a user who holds a
\* membership: every membership the store began with is still in the table as
\* it was.
C30_ExistingMembershipKept ==
    \A r \in InitStore.tbl : r \in board_members

-----------------------------------------------------------------------------
\* The calls that enrolled name (save and broadcast done) and whose delivery
\* to name then failed.
EnrolledUndelivered(name) ==
    {p \in Calls :
        /\ LoggedRes(p, "SaveMember", name, "ok")
        /\ Logged(p, "BroadcastMemberChange", name)
        /\ \E i \in EntriesOf(p, "MentionDeliver", name) : log[p][i].res # "ok"}

\* C31: when a call enrolled the mentioned user and MentionDeliver then
\* failed, the membership row stays in the store, the call's error for that
\* username is collected, and a later call that mentions the same user makes
\* no SaveMember call and no broadcast for the user.
C31_EnrollNotRolledBack ==
    \A name \in Usernames : \A p \in EnrolledUndelivered(name) :
        /\ getMemberForBoard(board_members, "b1", UserIdOf(name)) # {}
        /\ Failed(p, name, "deliver")
        /\ \A q \in Calls :
               q > p => /\ ~Logged(q, "SaveMember", name)
                        /\ ~Logged(q, "BroadcastMemberChange", name)

-----------------------------------------------------------------------------
\* C32: the username is resolved before the acting user is examined: in a call
\* for an event without acting user, a mention that resolves to no user is
\* skipped with no error at all, and the call returns nil when every new
\* mention resolved to no user.
C32_LookupBeforeActorCheck ==
    \A p \in Calls :
        (Started(p) /\ ~HasActor(evt[p]) /\ ~Ignored(evt[p])) =>
            /\ \A name \in Usernames :
                   Skipped(p, name) =>
                       /\ ErrorsFor(p, name) = {}
                       /\ ~Failed(p, name, "permission")
            /\ \A name \in NewOnly(p) :
                   ErrorsFor(p, name) # {} => Logged(p, "UserByUsername", name)
            /\ (pc[p] = "done" /\ \A name \in NewOnly(p) : Skipped(p, name)) =>
                   merr[p] = <<>>

\* A call for an event without acting user has returned nil after both of its
\* new mentions resolved to no user.
C32_Witness ==
    \E p \in Calls :
        /\ pc[p] = "done"
        /\ ~HasActor(evt[p])
        /\ NewOnly(p) = Usernames
        /\ \A name \in Usernames : Skipped(p, name)
        /\ merr[p] = <<>>

-----------------------------------------------------------------------------
\* Thread t's AddListener call does its work in this step.
Adds(t) == reg[t].pc = "locked" /\ reg[t].op = "add" /\ reg'[t].pc = "idle"

\* How many registrations of listener l the list holds.
Registrations(list, l) == Len(SelectSeq(list, LAMBDA x : x = l))

\* C33: the registry is a list, not a set. AddListener appends its listener
\* whether or not it is registered already, so its registrations grow by one;
\* a call makes, for each mention delivered, as many OnMention calls on a
\* listener as the copy of the registry holds registrations of it; and one
\* RemoveListener leaves no registration of its listener, however many there
\* were.
C33_RegistryIsAList ==
    /\ [][\A t \in Threads :
             /\ Adds(t) =>
                    /\ listeners' = Append(listeners, reg[t].l)
                    /\ Registrations(listeners', reg[t].l)
                           = Registrations(listeners, reg[t].l) + 1
             /\ Removes(t) => Registrations(listeners', reg[t].l) = 0]_vars
    /\ [](\A p \in Calls : \A name \in Usernames : \A l \in ListenerIds :
             (ReturnedUser(p, name) /\ username[p] # name) =>
                 Len(SelectSeq(NotificationsOf(p, name), LAMBDA x : x.lsn = l))
                     = Registrations(snapshot[p], l))

\* l1 was registered twice when a call copied the registry: the call made two
\* OnMention calls on l1 for a mention it delivered; and both registrations
\* are gone from the registry since.
C33_Witness ==
    \E p \in Calls : \E name \in Usernames :
        /\ pc[p] = "done"
        /\ snapshot[p] = <<"l1", "l1">>
        /\ ReturnedUser(p, name)
        /\ Len(SelectSeq(NotificationsOf(p, name), LAMBDA x : x.lsn = "l1")) = 2
        /\ listeners = <<>>

-----------------------------------------------------------------------------
(* The SQL store: calls of saveMember and deleteMember, one at a time. *)

\* The most history entries kept for one (board, user).
MaxHistory == 3

\* The members saved in these runs: users of the open board, as editor or as
\* viewer.
SavedMembers ==
    {BoardMember("b1", u, FALSE, e, FALSE, ~e) : u \in UserIds \cup {ActorId}, e \in BOOLEAN}

\* s.saveMember(db, bm) from its first statement to its return.
StoreSaveMember(bm, fault) ==
    /\ Len(board_members_history[Pair(bm.BoardID, bm.UserID)]) < MaxHistory
    /\ LET got == saveMember(board_members, board_members_history, bm, fault)
       IN  /\ board_members' = got.tbl
           /\ board_members_history' = got.hist
    /\ UNCHANGED <<regVars, callVars, boardVars, viewVars>>

\* s.deleteMember(db, boardID, userID) from its first statement to its return.
StoreDeleteMember(b, u, fault) ==
    /\ Len(board_members_history[Pair(b, u)]) < MaxHistory
    /\ LET got == deleteMember(board_members, board_members_history, b, u, fault)
       IN  /\ board_members' = got.tbl
           /\ board_members_history' = got.hist
    /\ UNCHANGED <<regVars, callVars, boardVars, viewVars>>

MemberNext ==
    \/ \E bm \in SavedMembers : \E fault \in SaveFaults : StoreSaveMember(bm, fault)
    \/ \E bm \in SavedMembers : \E fault \in DeleteFaults :
           StoreDeleteMember(bm.BoardID, bm.UserID, fault)

MemberSpec == Init /\ [][MemberNext]_vars

\* C34: the member history of each (board, user) is 'created', 'deleted',
\* 'created', ... in strict alternation, beginning with 'created', and the
\* user has a membership row on the board exactly when the latest entry is
\* 'created' (so a saveMember that found the member and a deleteMember that
\* found none added no entry).
C34_HistoryAlternates ==
    \A k \in Pairs :
        LET h == board_members_history[k]
        IN  /\ \A i \in 1 .. Len(h) :
                   h[i] = IF i % 2 = 1 THEN "created" ELSE "deleted"
            /\ getMemberForBoard(board_members, k[1], k[2]) # {}
                   <=> (Len(h) > 0 /\ h[Len(h)] = "created")

-----------------------------------------------------------------------------
(* The SQL store: calls of insertBoard, deleteBoard and undeleteBoard, one at
   a time. *)

\* The clock is read this far.
MaxTime == 4

\* What a call on the board tables leaves behind; the call is remembered with
\* the statement that failed in it and the rows the board had when it began.
BoardCall(op, id, fault, got) ==
    /\ boards' = got.boards
    /\ boards_history' = got.hist
    /\ now' = now + 1
    /\ ret' = [op |-> op, id |-> id, fault |-> fault, err |-> got.err,
               before |-> getBoard(boards, id)]
    /\ UNCHANGED <<storeVars, regVars, callVars, viewVars>>

\* s.insertBoard(db, board, userID) from its first statement to its return.
StoreInsertBoard(board, userID, fault) ==
    /\ now < MaxTime
    /\ BoardCall("insertBoard", board.ID, fault,
                 insertBoard(boards, boards_history, board, userID, now + 1, fault))

\* s.deleteBoard(db, boardID, userID) from its first statement to its return.
StoreDeleteBoard(boardID, userID, fault) ==
    /\ now < MaxTime
    /\ BoardCall("deleteBoard", boardID, fault,
                 deleteBoard(boards, boards_history, boardID, userID, now + 1, fault))

\* s.undeleteBoard(db, boardID, modifiedBy) from its first statement to its return.
StoreUndeleteBoard(boardID, modifiedBy, fault) ==
    /\ now < MaxTime
    /\ BoardCall("undeleteBoard", boardID, fault,
                 undeleteBoard(boards, boards_history, boardID, modifiedBy, now + 1, fault))

\* Any calls, with any statement failing.
BoardNext ==
    \/ \E id \in StoredBoardIds : \E title \in Titles : \E deleteAt \in {0, 1} :
       \E fault \in InsertFaults :
           StoreInsertBoard(NewBoard(id, title, deleteAt), CreatorOf(id), fault)
    \/ \E id \in StoredBoardIds : \E fault \in BoardFaults :
           StoreDeleteBoard(id, ActorId, fault)
    \/ \E id \in StoredBoardIds : \E fault \in BoardFaults :
           StoreUndeleteBoard(id, ActorId, fault)

BoardSpec == Init /\ [][BoardNext]_vars

\* Calls that return no error, insertBoard with DeleteAt zero.
SuccessNext ==
    \/ \E id \in StoredBoardIds : \E title \in Titles :
           /\ StoreInsertBoard(NewBoard(id, title, 0), CreatorOf(id), "none")
           /\ ~ret'.err
    \/ \E id \in StoredBoardIds :
           /\ StoreDeleteBoard(id, ActorId, "none")
           /\ ~ret'.err
    \/ \E id \in StoredBoardIds :
           /\ StoreUndeleteBoard(id, ActorId, "none")
           /\ ~ret'.err

SuccessSpec == Init /\ [][SuccessNext]_vars

\* The history rows of a board, oldest first.
HistoryOf(id) == SelectSeq(boards_history, LAMBDA r : r.id = id)

\* The latest history row of the board says it is not deleted.
LatestLive(id) ==
    LET h == HistoryOf(id) IN Len(h) > 0 /\ h[Len(h)].delete_at = 0

\* C35: after calls of insertBoard (with DeleteAt zero), deleteBoard and
\* undeleteBoard that all returned no error, a board id has a row in boards
\* exactly when its latest history row has delete_at = 0, and it never has
\* more than one row.
C35_RowIffLatestLive ==
    \A id \in StoredBoardIds :
        /\ getBoard(boards, id) # {} <=> LatestLive(id)
        /\ Cardinality(getBoard(boards, id)) <= 1

\* b1 was deleted and undeleted and has its row; b2 was deleted and has none.
C35_Witness ==
    /\ Len(HistoryOf("b1")) = 3 /\ HistoryOf("b1")[2].delete_at # 0
    /\ Cardinality(getBoard(boards, "b1")) = 1 /\ LatestLive("b1")
    /\ getBoard(boards, "b2") = {} /\ ~LatestLive("b2")
    /\ ret.op = "deleteBoard" /\ ret.id = "b2" /\ ~ret.err

\* The columns undeleteBoard is to bring back as they were.
RestoredColumns ==
    {"id", "team_id", "created_by", "type", "title", "description", "icon",
     "show_description", "is_template", "template_version", "properties",
     "card_properties", "create_at"}

\* This step is a successful undeleteBoard of the board that the call before
\* it deleted.
UndeletesDeleted ==
    /\ ret.op = "deleteBoard" /\ ~ret.err
    /\ ret'.op = "undeleteBoard" /\ ~ret'.err
    /\ ret'.id = ret.id

\* C36: deleteBoard followed by undeleteBoard of the same board restores its
\* row: id, team id, created_by, type, title, description, icon, the flags,
\* properties, card properties and create_at are what they were before the
\* deletion and delete_at is 0; modified_by is the undeleting user, update_at
\* the time of the undeletion, and channel_id is empty.
C36_UndeleteRestoresRow ==
    [][UndeletesDeleted =>
          \E old \in ret.before : \E new \in getBoard(boards', ret.id) :
              /\ getBoard(boards', ret.id) = {new}
              /\ \A c \in RestoredColumns : new[c] = old[c]
              /\ new.delete_at = 0
              /\ new.modified_by = ActorId
              /\ new.update_at = now'
              /\ new.channel_id = ""
              /\ boards' \ {new} = boards]_vars

\* b2, which had a channel, was deleted and then undeleted by the next call:
\* its row is back, without channel and with the undeleting user as modifier.
C36_Witness ==
    /\ ret.op = "undeleteBoard" /\ ret.id = "b2" /\ ~ret.err /\ ret.before = {}
    /\ LET h == HistoryOf("b2")
       IN  /\ Len(h) = 3
           /\ h[1].channel_id = "ch"
           /\ h[2].delete_at = now - 1
           /\ h[3].update_at = now /\ h[3].delete_at = 0
           /\ getBoard(boards, "b2") = {h[3]}
           /\ h[3].channel_id = "" /\ h[3].modified_by = ActorId
           /\ h[3].created_by = CreatorOf("b2") /\ h[3].create_at = 1

\* This step is an undeleteBoard call that could read the history.
Undeletes == ret'.op = "undeleteBoard" /\ ret'.fault # "query"

\* C37: undeleteBoard of a board with no history, or whose latest history row
\* is not deleted, returns no error and writes nothing, neither to boards nor
\* to the history; so of two undeleteBoard calls that follow a deleteBoard,
\* the first restores the board and the second changes nothing.
C37_UndeleteIdempotent ==
    [][/\ (Undeletes /\ (HistoryOf(ret'.id) = <<>> \/ LatestLive(ret'.id))) =>
              /\ ~ret'.err
              /\ boards' = boards
              /\ boards_history' = boards_history
       /\ (Undeletes /\ ret.op = "undeleteBoard" /\ ret.id = ret'.id /\ ~ret.err) =>
              /\ ~ret'.err
              /\ boards' = boards
              /\ boards_history' = boards_history]_vars

\* b1 was deleted, then undeleted by two calls: the first restored it, the
\* second found the row there and left one row and three history rows; and b3
\* has no history.
C37_Witness ==
    /\ ret.op = "undeleteBoard" /\ ret.id = "b1" /\ ~ret.err
    /\ LET h == HistoryOf("b1")
       IN  /\ Len(h) = 3
           /\ h[2].delete_at = now - 2
           /\ h[3].update_at = now - 1 /\ h[3].delete_at = 0
           /\ ret.before = {h[3]}
           /\ getBoard(boards, "b1") = {h[3]}
    /\ HistoryOf("b3") = <<>>

-----------------------------------------------------------------------------
(* BoardComponent: the handlers that change the selection. *)

\* cardClicked(e, card)
cardClicked(card, shiftKey) ==
    /\ IF shiftKey
       THEN /\ selectedCards' = Toggled(selectedCards, card)
            /\ UNCHANGED shownCard
       ELSE /\ selectedCards' = <<>>
            /\ shownCard' = card
    /\ domEvent' = DomEvent("click", card, shiftKey, card, 0)
    /\ UNCHANGED <<storeVars, regVars, callVars, boardVars>>

\* backgroundClicked(e)
backgroundClicked ==
    /\ selectedCards' = IF Len(selectedCards) > 0 THEN <<>> ELSE selectedCards
    /\ domEvent' = DomEvent("click", Undefined, FALSE, "background", 0)
    /\ UNCHANGED <<shownCard, storeVars, regVars, callVars, boardVars>>

\* keydownHandler(e)
keydownHandler(target, keyCode) ==
    /\ selectedCards' = IF target # "body" THEN selectedCards
                        ELSE IF keyCode = KeyEscape /\ Len(selectedCards) > 0 THEN <<>>
                        ELSE selectedCards
    /\ domEvent' = DomEvent("keydown", Undefined, FALSE, target, keyCode)
    /\ UNCHANGED <<shownCard, storeVars, regVars, callVars, boardVars>>

\* The onClose of the shown card (line 123).
onClose ==
    /\ shownCard # Undefined
    /\ shownCard' = Undefined
    /\ domEvent' = DomEvent("close", Undefined, FALSE, "", 0)
    /\ UNCHANGED <<selectedCards, storeVars, regVars, callVars, boardVars>>

ViewNext ==
    \/ \E card \in Cards : \E shiftKey \in BOOLEAN : cardClicked(card, shiftKey)
    \/ backgroundClicked
    \/ \E target \in {"body", "input"} : \E keyCode \in KeyCodes :
           keydownHandler(target, keyCode)
    \/ onClose

ViewSpec == Init /\ [][ViewNext]_vars

\* The selection holds no card twice.
NoCardTwice ==
    \A i, j \in 1 .. Len(selectedCards) : selectedCards[i] = selectedCards[j] => i = j

\* The selection without the card, in its order.
Others(list, card) == SelectSeq(list, LAMBDA o : o # card)

\* What a click on a card does: with shift the card enters the selection when
\* it was not in it and leaves it when it was, the other cards staying as they
\* are and the shown card too; without shift the selection is emptied and the
\* card shown.
ClickRules ==
    \A card \in Cards :
        (domEvent'.type = "click" /\ domEvent'.card = card) =>
            IF domEvent'.shiftKey
            THEN /\ (\E i \in 1 .. Len(selectedCards') : selectedCards'[i] = card)
                        <=> ~(\E i \in 1 .. Len(selectedCards) : selectedCards[i] = card)
                 /\ Others(selectedCards', card) = Others(selectedCards, card)
                 /\ shownCard' = shownCard
            ELSE /\ selectedCards' = <<>>
                 /\ shownCard' = card

\* A click on the background empties the selection.
BackgroundRule ==
    (domEvent'.type = "click" /\ domEvent'.target = "background") =>
        selectedCards' = <<>> /\ shownCard' = shownCard

\* C38 as stated: the selection never holds a card twice; shift+click toggles
\* the clicked card and leaves the others, a plain click empties the selection
\* and shows the card, and a background click or the Escape key empties the
\* selection.
C38_EscapeAlwaysClears ==
    /\ []NoCardTwice
    /\ [][/\ ClickRules
          /\ BackgroundRule
          /\ (domEvent'.type = "keydown" /\ domEvent'.keyCode = KeyEscape) =>
                 selectedCards' = <<>>]_vars

\* C38, amended: the selection never holds a card twice; shift+click toggles
\* the clicked card and leaves the others, a plain click empties the selection
\* and shows the card, a background click empties the selection, and so does
\* the Escape key when the key event's target is the document body; any other
\* key event leaves the selection as it is.
C38_SelectionRules ==
    /\ []NoCardTwice
    /\ [][/\ ClickRules
          /\ BackgroundRule
          /\ domEvent'.type = "keydown" =>
                 /\ shownCard' = shownCard
                 /\ selectedCards' =
                        IF domEvent'.target = "body" /\ domEvent'.keyCode = KeyEscape
                        THEN <<>>
                        ELSE selectedCards]_vars

\* Two cards are selected, and Escape was pressed last, in an input field.
C38_Witness ==
    /\ Len(selectedCards) = 2
    /\ domEvent.type = "keydown"
    /\ domEvent.keyCode = KeyEscape
    /\ domEvent.target = "input"

====
